---- MODULE Spec2Model ----
(***************************************************************************)
(* A model of the tool-invocation runtime of the file-system agent:        *)
(*   - the orchestration loop of src/agent/main.py (main, execute_tool_call),*)
(*     its command layer (src/agent/commands.py), the dispatch table with  *)
(*     the conversation wrappers (src/agent/tools.py) and the conversation *)
(*     store (src/agent/conversation.py);                                  *)
(*   - the path resolver (src/agent/tools/shared/path_utils.py) and        *)
(*     write_to_file (src/tools/file_operations/write_to_file.py).         *)
(***************************************************************************)
EXTENDS Integers, Sequences, FiniteSets, TLC

(***************************************************************************)
(* Bounds of the model.                                                    *)
(***************************************************************************)
MaxTurns == 2       \* user prompts sent to the model in one session
MaxRounds == 1      \* tool-call rounds the remote model asks for in one session
MaxCalls == 2       \* tool-call requests carried by one assistant message
MaxSaves == 1       \* conversation snapshots written in one session
MaxSegs == 2        \* segments of a path argument
MaxWrites == 2      \* write_to_file calls in one session
MaxEdits == 1       \* write_to_file calls of one editing workflow
MaxLen == 4         \* messages of a list handed to prune_messages
MaxItems == 3       \* the max_items handed to prune_messages
MaxStores == 2      \* snapshots written through the conversation store alone
MaxClock == 1       \* seconds that pass while the store is exercised
MaxModules == 2     \* entries of the tools directory
MaxNested == 1      \* modules of a package of the tools directory

VARIABLES
    messages,          \* main: the authoritative message list
    pc,                \* position of the loop: start, input, model, tools, running, model2, exited, crashed
    tool_calls,        \* main: the requests of the round being processed
    idx,               \* position of the for loop over tool_calls (1-based)
    response_message,  \* main: the message the display step looks at
    console,           \* the kind of output the last step printed to the transcript
    disk,              \* the conversation files, by name
    turn,              \* number of user prompts appended so far
    round,             \* number of rounds begun so far
    saves,             \* number of snapshots written so far
    rendered,          \* the message whose content the display step rendered
    log,               \* history of the current round: invocations and appends
    messages_for_api   \* main: the message list of the request in flight, <<>> when none is

loopVars == <<messages, pc, tool_calls, idx, response_message, console, rendered, disk, turn, round, saves, log,
              messages_for_api>>

VARIABLES
    FOCUS_PATH,        \* path_utils: the process-wide focus path, <<>> when unset (None)
    focus_set,         \* the startup argument processing has called set_focus_path
    call,              \* the last call of a path tool: its arguments and what it returned
    fs,                \* the file system: the directories and the files that exist
    writes,            \* number of write_to_file calls so far
    contents,          \* the text of every file, by place
    diffed,            \* the files a diff was shown for since their last change
    clock              \* datetime.now(), in seconds

pathVars == <<FOCUS_PATH, focus_set, call, fs, writes, contents, diffed, clock>>

vars == <<loopVars, pathVars>>

(***************************************************************************)
(* Messages.  One record shape for the four roles; content is a tuple of   *)
(* text pieces (<<>> is the empty text); `turn` tags the user prompt of a  *)
(* turn (its content), 0 for every other message.                          *)
(***************************************************************************)
NoMessage == [role |-> "none", content |-> <<>>, calls |-> <<>>, id |-> 0, name |-> "", turn |-> 0]

SystemMessage == [role |-> "system", content |-> <<"system_prompt">>, calls |-> <<>>, id |-> 0, name |-> "", turn |-> 0]

UserMessage(t) == [role |-> "user", content |-> <<"prompt">>, calls |-> <<>>, id |-> 0, name |-> "", turn |-> t]

AssistantMessage(content, calls) == [role |-> "assistant", content |-> content, calls |-> calls, id |-> 0, name |-> "", turn |-> 0]

ToolMessage(tc, content) == [role |-> "tool", content |-> content, calls |-> <<>>, id |-> tc.id, name |-> tc.name, turn |-> 0]

\* json.dumps({"error": "Function '<name>' not found by the client application."})
NotFoundContent(name) == <<"error", "Function", name, "not found by the client application.">>

\* json.dumps({"error": "Invalid arguments format received from LLM."})
InvalidArgsContent == <<"error", "Invalid arguments format received from LLM.">>

\* a JSON object without the key "role", as a saved conversation may hold
Roleless == [role |-> "missing", content |-> <<"text">>, calls |-> <<>>, id |-> 0, name |-> "", turn |-> 0]

Pop(s) == SubSeq(s, 1, Len(s) - 1)


(***************************************************************************)
(* Conversation store (src/agent/conversation.py).  A file name is a       *)
(* sequence of pieces, ".json" the extension; the disk maps the names of   *)
(* the files of the conversations directory to their payload: absent, a    *)
(* bare JSON list of messages, the {metadata, messages} envelope, a JSON   *)
(* object without "messages", or content that is no JSON list or object.   *)
(* A name behind ".." is a file of the base directory.  Both operations    *)
(* are called with the same use_focus_path, so they work in one directory. *)
(***************************************************************************)
Legacy == <<"legacy", ".json">>

Out == <<"out", ".json">>

FileNames == {Legacy, Out}

\* filename is None (or empty)
NoName == <<>>

LLM_MODEL == "google/gemini-2.5-flash-preview"

NoMetadata == [note |-> "No metadata available"]

Absent == [shape |-> "absent", msgs |-> <<>>, metadata |-> NoMetadata]

BareList(msgs) == [shape |-> "list", msgs |-> msgs, metadata |-> NoMetadata]

Envelope(msgs, now) ==
    [shape |-> "envelope", msgs |-> msgs, metadata |-> [timestamp |-> now, model |-> LLM_MODEL]]

JsonObject == [shape |-> "object", msgs |-> <<>>, metadata |-> NoMetadata]

Garbage == [shape |-> "garbage", msgs |-> <<>>, metadata |-> NoMetadata]

\* the payload of the file `key`
Lookup(d, key) == IF key \in DOMAIN d THEN d[key] ELSE Absent

\* filename.endswith('.json'), and the name with the extension
WithJson(filename) ==
    IF filename # <<>> /\ filename[Len(filename)] = ".json" THEN filename ELSE Append(filename, ".json")

\* lines 62-67: the name of the file a snapshot goes to; the generated name
\* carries the time to the second
conversation_file(filename, now) ==
    IF filename = NoName THEN <<"conversation_", now, ".json">> ELSE WithJson(filename)

\* lines 152-156: the same name in the base directory
AltPath(filename) == <<"..">> \o filename

\* A slip in load_messages_from_file: the extension is not added to the name.
load_messages_from_file_AsGiven(d, filename) ==
    LET data == IF Lookup(d, filename) # Absent THEN Lookup(d, filename)
                ELSE Lookup(d, AltPath(filename)) IN
    CASE data.shape = "absent"   -> [ok |-> FALSE, status |-> "error", msgs |-> <<>>, metadata |-> NoMetadata]
      [] data.shape = "garbage"  -> [ok |-> FALSE, status |-> "error", msgs |-> <<>>, metadata |-> NoMetadata]
      [] data.shape = "list"     -> [ok |-> TRUE, status |-> "success", msgs |-> data.msgs, metadata |-> NoMetadata]
      [] data.shape = "envelope" -> [ok |-> TRUE, status |-> "success", msgs |-> data.msgs, metadata |-> data.metadata]
      [] data.shape = "object"   -> [ok |-> TRUE, status |-> "success", msgs |-> <<>>, metadata |-> NoMetadata]

\* load_messages_from_file: the pair (result, loaded_messages); ok = FALSE is
\* loaded_messages = None.  A JSON object without "messages" loads as the
\* empty list (data.get("messages", [])); content that is no JSON, or JSON
\* that is neither list nor object, raises inside the try block.
load_messages_from_file(d, filename) ==
    LET file_path == WithJson(filename)
        data == IF Lookup(d, file_path) # Absent THEN Lookup(d, file_path)
                ELSE Lookup(d, AltPath(file_path)) IN
    CASE data.shape = "absent"   -> [ok |-> FALSE, status |-> "error", msgs |-> <<>>, metadata |-> NoMetadata]
      [] data.shape = "garbage"  -> [ok |-> FALSE, status |-> "error", msgs |-> <<>>, metadata |-> NoMetadata]
      [] data.shape = "list"     -> [ok |-> TRUE, status |-> "success", msgs |-> data.msgs, metadata |-> NoMetadata]
      [] data.shape = "envelope" -> [ok |-> TRUE, status |-> "success", msgs |-> data.msgs, metadata |-> data.metadata]
      [] data.shape = "object"   -> [ok |-> TRUE, status |-> "success", msgs |-> <<>>, metadata |-> NoMetadata]

\* dump_messages_to_file: the disk after the call; io = FALSE is an OS failure
\* inside the try block (directory or file not writable).
dump_messages_to_file(d, msgs, filename, now, io) ==
    LET file_path == conversation_file(filename, now) IN
    IF io THEN [k \in DOMAIN d \cup {file_path} |-> IF k = file_path THEN Envelope(msgs, now) ELSE d[k]]
    ELSE d

dump_status(io) == IF io THEN "success" ELSE "error"

\* the loop model keeps no time: its snapshots carry this second
Epoch == 0

(***************************************************************************)
(* Dispatch table (src/agent/tools.py, get_available_functions).           *)
(***************************************************************************)
available_functions == {"read_file_content", "write_to_file", "create_empty_file", "move_files", "dump_messages", "load_messages"}

\* The requests the remote model can send: a registered tool with arguments
\* that decode to a mapping ("obj"), that are no JSON ("bad"), or that are JSON
\* but no mapping ("nonmap"); a tool that is not registered; the two
\* conversation tools.
CallKinds ==
    {[name |-> "read_file_content", args |-> a, file |-> Out] : a \in {"obj", "bad", "nonmap"}}
    \cup {[name |-> "delete_everything", args |-> "obj", file |-> Out]}
    \cup {[name |-> "load_messages", args |-> "obj", file |-> f] : f \in FileNames}
    \cup {[name |-> "dump_messages", args |-> "obj", file |-> Out]}

KindLists == UNION {[1..n -> CallKinds] : n \in 1..MaxCalls}

\* The tool_calls list of an assistant message: ids are distinct in a turn.
MkCalls(kinds, r) ==
    [i \in 1..Len(kinds) |->
        [id |-> (r - 1) * MaxCalls + i, name |-> kinds[i].name,
         args |-> kinds[i].args, file |-> kinds[i].file]]

(***************************************************************************)
(* Context pruning (prune_messages; main calls it with a copy of the       *)
(* message list and max_items = 10 before every request).                  *)
(***************************************************************************)
KeepRecent == 10

\* the slice messages_list[-max_items:] of a list longer than max_items
\* (for max_items = 0 the slice [-0:] is the whole list)
LastItems(messages_list, max_items) ==
    IF max_items = 0 THEN messages_list
    ELSE SubSeq(messages_list, Len(messages_list) - max_items + 1, Len(messages_list))

prune_messages(messages_list, max_items) ==
    IF Len(messages_list) <= max_items + 1 THEN messages_list
    ELSE <<messages_list[1]>> \o LastItems(messages_list, max_items)

(***************************************************************************)
(* The outer error boundary of the loop (main, except Exception).          *)
(***************************************************************************)
OuterExcept(msgs) ==
    IF Len(msgs) > 0 /\ msgs[Len(msgs)].role = "user" THEN Pop(msgs) ELSE msgs

\* A slip in the clear branch: the system message goes with the rest.
ClearMessages_All(msgs) == <<>>

\* handle_special_command, clear
ClearMessages(msgs) ==
    IF Len(msgs) > 0 /\ msgs[1].role = "system" THEN <<msgs[1]>> ELSE <<>>

\* Nothing was rendered: the turn has not reached the display step.
Nothing == [NoMessage EXCEPT !.role = "nothing"]

\* The display step at the end of a turn: the message whose content is
\* rendered, NoMessage when the "no further text content" warning is shown.
Display(m) ==
    IF m.role # "none" /\ m.content # <<>> THEN m ELSE NoMessage


(***************************************************************************)
(* Initial state: the process has parsed its arguments and built the       *)
(* system prompt (main, line 125); the conversation directory holds files  *)
(* of earlier sessions.                                                    *)
(***************************************************************************)
OldTurn == <<UserMessage(0), AssistantMessage(<<"text">>, <<>>)>>

LoopInit ==
    /\ messages = <<SystemMessage>>
    /\ pc = "start"
    /\ tool_calls = <<>>
    /\ idx = 1
    /\ response_message = NoMessage
    /\ console = "logo"
    /\ rendered = Nothing
    /\ disk = [f \in FileNames |-> IF f = Legacy THEN BareList(OldTurn) ELSE Absent]
    /\ turn = 0
    /\ round = 0
    /\ saves = 0
    /\ log = <<>>
    /\ messages_for_api = <<>>

Event(e, i) == [e |-> e, i |-> i]

(***************************************************************************)
(* Startup: the --load option (main, lines 127-142).                       *)
(***************************************************************************)
StartupStep ==
    /\ pc = "start"
    /\ \E load_file \in FileNames \cup {NoName} :
         IF load_file = NoName
         THEN /\ console' = "welcome"
              /\ UNCHANGED messages
         ELSE LET r == load_messages_from_file(disk, load_file) IN
              /\ messages' = IF r.ok THEN r.msgs ELSE messages
              /\ console' = "welcome"
    /\ pc' = "input"
    /\ UNCHANGED <<tool_calls, idx, response_message, rendered, disk, turn, round, saves, log, messages_for_api>>

Startup == UNCHANGED pathVars /\ StartupStep

(***************************************************************************)
(* AwaitingUserInput (main, lines 148-175; handle_special_command).        *)
(***************************************************************************)
\* The lines the user types: pieces that are a blank or a word.
Lines ==
    {<<>>, <<" ">>, <<"exit">>, <<" ", "QUIT">>, <<"save", " ", "out">>, <<"load">>,
     <<"load", " ", "legacy">>, <<"load", " ", "out">>, <<"clear">>, <<"help">>, <<"hello">>,
     <<"clear", " ", "the", " ", "build", " ", "directory">>}

\* the prompt raised EOFError instead of returning a line
EndOfInput == <<"<EOF>">>

NotBlank(piece) == piece # " "

\* str.lower, for the words of Lines
Lower(word) == IF word = "QUIT" THEN "quit" ELSE word

\* command.strip().lower().split()
cmd_parts(command) ==
    LET words == SelectSeq(command, NotBlank) IN
    [i \in 1..Len(words) |-> Lower(words[i])]

base_cmd(command) == IF cmd_parts(command) # <<>> THEN cmd_parts(command)[1] ELSE ""

\* not user_prompt.strip()
IsEmptyLine(line) == SelectSeq(line, NotBlank) = <<>>

\* what the loop does with its own variables for each kind of line
InputEOFStep ==
    /\ pc = "input"
    /\ pc' = "exited"
    /\ console' = "goodbye"
    /\ UNCHANGED <<messages, tool_calls, idx, response_message, rendered, disk, turn, round, saves, log, messages_for_api>>

\* A prompt for the model: append the user message and send the first request.
UserPromptStep ==
    /\ pc = "input"
    /\ turn < MaxTurns
    /\ turn' = turn + 1
    /\ messages' = Append(messages, UserMessage(turn + 1))
    /\ messages_for_api' = prune_messages(messages', KeepRecent)
    /\ pc' = "model"
    /\ log' = <<>>
    /\ console' = "thinking"
    /\ rendered' = Nothing
    /\ UNCHANGED <<tool_calls, idx, response_message, disk, round, saves>>

\* A slip in the loop: the check for an empty line is missing, the line goes
\* on as a prompt for the model.
InputEmptyStep_AsPrompt == UserPromptStep

InputEmptyStep ==
    /\ pc = "input"
    /\ UNCHANGED loopVars

CmdQuitStep ==
    /\ pc = "input"
    /\ pc' = "exited"
    /\ console' = "goodbye"
    /\ UNCHANGED <<messages, tool_calls, idx, response_message, rendered, disk, turn, round, saves, log, messages_for_api>>

CmdSaveStep(filename) ==
    /\ pc = "input"
    /\ saves < MaxSaves
    /\ saves' = saves + 1
    /\ \E io \in BOOLEAN :
         /\ disk' = dump_messages_to_file(disk, messages, filename, Epoch, io)
         /\ console' = "command"
    /\ UNCHANGED <<messages, pc, tool_calls, idx, response_message, rendered, turn, round, log, messages_for_api>>

\* filename = NoName: the line has no second word
CmdLoadStep(filename) ==
    /\ pc = "input"
    /\ IF filename = NoName
       THEN /\ console' = "command"
            /\ UNCHANGED messages
       ELSE LET r == load_messages_from_file(disk, filename) IN
            /\ messages' = IF r.ok THEN r.msgs ELSE messages
            /\ console' = "command"
    /\ UNCHANGED <<pc, tool_calls, idx, response_message, rendered, disk, turn, round, saves, log, messages_for_api>>

\* handle_special_command runs outside the try block of the loop: for a first
\* message without "role", messages[0]["role"] raises KeyError and the
\* process ends with a traceback.
CmdClearStep ==
    /\ pc = "input"
    /\ IF Len(messages) > 0 /\ messages[1] = Roleless
       THEN /\ pc' = "crashed"
            /\ console' = "traceback"
            /\ UNCHANGED messages
       ELSE /\ messages' = ClearMessages(messages)
            /\ console' = "command"
            /\ UNCHANGED pc
    /\ UNCHANGED <<tool_calls, idx, response_message, rendered, disk, turn, round, saves, log, messages_for_api>>

CmdHelpStep ==
    /\ pc = "input"
    /\ console' = "command"
    /\ UNCHANGED <<messages, pc, tool_calls, idx, response_message, rendered, disk, turn, round, saves, log, messages_for_api>>

\* main, lines 158-175, and handle_special_command: the route of a line
handle_line(user_prompt) ==
    IF IsEmptyLine(user_prompt) THEN InputEmptyStep
    ELSE CASE base_cmd(user_prompt) \in {"exit", "quit"} -> CmdQuitStep
           [] base_cmd(user_prompt) \in {"save", "dump"} ->
                CmdSaveStep(IF Len(cmd_parts(user_prompt)) > 1 THEN <<cmd_parts(user_prompt)[2]>> ELSE NoName)
           [] base_cmd(user_prompt) = "load" ->
                CmdLoadStep(IF Len(cmd_parts(user_prompt)) < 2 THEN NoName ELSE <<cmd_parts(user_prompt)[2]>>)
           [] base_cmd(user_prompt) = "clear" -> CmdClearStep
           [] base_cmd(user_prompt) = "help" -> CmdHelpStep
           [] OTHER -> UserPromptStep

\* the loop with the typed line left out: one action for each route
InputEOF == UNCHANGED pathVars /\ InputEOFStep

InputEmpty == UNCHANGED pathVars /\ InputEmptyStep

CmdQuit == UNCHANGED pathVars /\ CmdQuitStep

CmdSave == UNCHANGED pathVars /\ CmdSaveStep(Out)

CmdLoad == UNCHANGED pathVars /\ \E arg \in FileNames \cup {NoName} : CmdLoadStep(arg)

CmdClear == UNCHANGED pathVars /\ CmdClearStep

CmdHelp == UNCHANGED pathVars /\ CmdHelpStep

UserPrompt == UNCHANGED pathVars /\ UserPromptStep


(***************************************************************************)
(* End of a turn: back to the prompt.  tool_calls, idx and response_message*)
(* are not read again before the next turn assigns them, so they are reset.*)
(***************************************************************************)
EndTurn(msgs, printed, shown) ==
    /\ messages' = msgs
    /\ console' = printed
    /\ rendered' = shown
    /\ pc' = "input"
    /\ tool_calls' = <<>>
    /\ idx' = 1
    /\ response_message' = NoMessage
    /\ log' = <<>>
    /\ messages_for_api' = <<>>

\* A slip in the loop: tool-call requests are followed for one round of a
\* session only, a later assistant message ends the turn whatever it carries.
TakeMessage_OneRound(m) ==
    IF m.calls # <<>> /\ round < 1
    THEN /\ messages' = Append(messages, m)
         /\ response_message' = m
         /\ tool_calls' = m.calls
         /\ idx' = 1
         /\ pc' = "tools"
         /\ round' = round + 1
         /\ console' = "tool_wanted"
         /\ log' = <<>>
         /\ messages_for_api' = <<>>
         /\ UNCHANGED rendered
    ELSE /\ EndTurn(Append(messages, m), "answer", Display(m))
         /\ UNCHANGED round

\* The first message of a response: what the loop does with it (main, lines
\* 218-227 and 340-348).
TakeMessage(m) ==
    IF m.calls # <<>>
    THEN /\ messages' = Append(messages, m)
         /\ response_message' = m
         /\ tool_calls' = m.calls
         /\ idx' = 1
         /\ pc' = "tools"
         /\ round' = round + 1
         /\ console' = "tool_wanted"
         /\ log' = <<>>
         /\ messages_for_api' = <<>>
         /\ UNCHANGED rendered
    ELSE /\ EndTurn(Append(messages, m), "answer", Display(m))
         /\ UNCHANGED round

\* The messages the remote model can answer with: text, or tool-call requests
\* with or without text.
Answers(r) ==
    {AssistantMessage(c, <<>>) : c \in {<<>>, <<"text">>}}
    \cup (IF r < MaxRounds
          THEN {AssistantMessage(c, MkCalls(k, r + 1)) : c \in {<<>>, <<"text">>}, k \in KindLists}
          ELSE {})

\* dump_messages is asked for only while the session may still write a snapshot
Writable(m, n) ==
    \A i \in 1..Len(m.calls) :
        m.calls[i].name = "dump_messages" => n + Cardinality({j \in 1..i : m.calls[j].name = "dump_messages"}) <= MaxSaves

(***************************************************************************)
(* AwaitingModelResponse, first request of a turn (main, lines 177-224).   *)
(***************************************************************************)
\* call_openrouter_api raises (timeout, non-2xx, body that is no JSON)
ApiRaises ==
    /\ UNCHANGED pathVars
    /\ pc = "model"
    /\ EndTurn(OuterExcept(messages), "unexpected_error_request", Nothing)
    /\ UNCHANGED <<disk, turn, round, saves>>

\* no choices in the response
ApiInvalid ==
    /\ UNCHANGED pathVars
    /\ pc = "model"
    /\ EndTurn(Pop(messages), "invalid_response", Nothing)
    /\ UNCHANGED <<disk, turn, round, saves>>

\* the first choice has no message
ApiNoMessage ==
    /\ UNCHANGED pathVars
    /\ pc = "model"
    /\ EndTurn(Pop(messages), "no_message", Nothing)
    /\ UNCHANGED <<disk, turn, round, saves>>

ApiMessage ==
    /\ UNCHANGED pathVars
    /\ pc = "model"
    /\ \E m \in Answers(round) : Writable(m, saves) /\ TakeMessage(m)
    /\ UNCHANGED <<disk, turn, saves>>

(***************************************************************************)
(* The follow-up request after a round (main, lines 287-310): sent when    *)
(* the for loop over tool_calls is over.                                   *)
(***************************************************************************)
\* A slip of indentation: the follow-up request is sent from inside the for
\* loop, after the first request of the round.
SendFollowUp_Early ==
    /\ UNCHANGED pathVars
    /\ pc = "tools"
    /\ idx > 1
    /\ pc' = "model2"
    /\ console' = "sending_tool_responses"
    /\ messages_for_api' = prune_messages(messages, KeepRecent)
    /\ UNCHANGED <<messages, tool_calls, idx, response_message, rendered, disk, turn, round, saves, log>>

\* A slip in the follow-up request: the message list itself is replaced by
\* its pruned copy.
SendFollowUp_PrunesInPlace ==
    /\ UNCHANGED pathVars
    /\ pc = "tools"
    /\ idx > Len(tool_calls)
    /\ pc' = "model2"
    /\ console' = "sending_tool_responses"
    /\ messages' = prune_messages(messages, KeepRecent)
    /\ messages_for_api' = messages'
    /\ UNCHANGED <<tool_calls, idx, response_message, rendered, disk, turn, round, saves, log>>

SendFollowUp ==
    /\ UNCHANGED pathVars
    /\ pc = "tools"
    /\ idx > Len(tool_calls)
    /\ pc' = "model2"
    /\ console' = "sending_tool_responses"
    /\ messages_for_api' = prune_messages(messages, KeepRecent)
    /\ UNCHANGED <<messages, tool_calls, idx, response_message, rendered, disk, turn, round, saves, log>>

(***************************************************************************)
(* AwaitingModelResponse, follow-up request (main, lines 308-346).         *)
(***************************************************************************)
FollowUpRaises ==
    /\ UNCHANGED pathVars
    /\ pc = "model2"
    /\ EndTurn(OuterExcept(messages), "unexpected_error_request", Nothing)
    /\ UNCHANGED <<disk, turn, round, saves>>

\* tool_calls = None, response_message = None, break, then the display step
FollowUpInvalid ==
    /\ UNCHANGED pathVars
    /\ pc = "model2"
    /\ EndTurn(messages, "invalid_response", Display(NoMessage))
    /\ UNCHANGED <<disk, turn, round, saves>>

\* tool_calls = None, break: response_message is still the last assistant
\* message, and the display step renders it
FollowUpNoMessage ==
    /\ UNCHANGED pathVars
    /\ pc = "model2"
    /\ EndTurn(messages, "no_message", Display(response_message))
    /\ UNCHANGED <<disk, turn, round, saves>>

FollowUpMessage ==
    /\ UNCHANGED pathVars
    /\ pc = "model2"
    /\ \E m \in Answers(round) : Writable(m, saves) /\ TakeMessage(m)
    /\ UNCHANGED <<disk, turn, saves>>


(***************************************************************************)
(* ToolCallsPending: one request of the round (main, lines 240-285, and    *)
(* execute_tool_call, lines 415-468).                                      *)
(***************************************************************************)
\* for tool_call in tool_calls: the next request
ForNext(i) == i + 1

\* A slip in the "not found" branch: the tool message does not carry the id of
\* the request (tool_call_id is left at its default).
NotFoundMessage_Unlabelled(tc) == ToolMessage([tc EXCEPT !.id = 0], NotFoundContent(tc.name))

\* The tool message of a request no callable is registered for.
NotFoundMessage(tc) == ToolMessage(tc, NotFoundContent(tc.name))

\* The tool message of a request whose arguments json.loads rejects.
InvalidArgsMessage(tc) == ToolMessage(tc, InvalidArgsContent)

\* One request is answered: its tool message is appended, the loop goes on.
Answered(msgs, printed) ==
    /\ messages' = msgs
    /\ console' = printed
    /\ idx' = ForNext(idx)
    /\ pc' = "tools"
    /\ log' = Append(log, Event("append", idx))
    /\ UNCHANGED <<tool_calls, response_message, rendered, turn, round, messages_for_api>>

ToolUnknown ==
    /\ UNCHANGED pathVars
    /\ pc = "tools"
    /\ idx <= Len(tool_calls)
    /\ tool_calls[idx].name \notin available_functions
    /\ Answered(Append(messages, NotFoundMessage(tool_calls[idx])), "unknown_function")
    /\ UNCHANGED <<disk, saves>>

\* json.loads raises JSONDecodeError: the callable is not called
ToolBadArguments ==
    /\ UNCHANGED pathVars
    /\ pc = "tools"
    /\ idx <= Len(tool_calls)
    /\ tool_calls[idx].name \in available_functions
    /\ tool_calls[idx].args = "bad"
    /\ Answered(Append(messages, InvalidArgsMessage(tool_calls[idx])), "bad_arguments")
    /\ UNCHANGED <<disk, saves>>

\* json.loads returns a list, a string, a number or null: the call
\* function_to_call(**function_args) raises TypeError before the callable runs
ToolArgumentsNotMapping ==
    /\ UNCHANGED pathVars
    /\ pc = "tools"
    /\ idx <= Len(tool_calls)
    /\ tool_calls[idx].name \in available_functions
    /\ tool_calls[idx].args = "nonmap"
    /\ EndTurn(OuterExcept(messages), "unexpected_error_arguments", Nothing)
    /\ UNCHANGED <<disk, turn, round, saves>>

\* function_to_call(**function_args): the callable starts
ToolInvoke ==
    /\ UNCHANGED pathVars
    /\ pc = "tools"
    /\ idx <= Len(tool_calls)
    /\ tool_calls[idx].name \in available_functions
    /\ tool_calls[idx].args = "obj"
    /\ pc' = "running"
    /\ console' = "running_tool"
    /\ log' = Append(log, Event("invoke", idx))
    /\ UNCHANGED <<messages, tool_calls, idx, response_message, rendered, disk, turn, round, saves, messages_for_api>>

(***************************************************************************)
(* AwaitingToolResults: the callable returns or raises.                    *)
(***************************************************************************)
ConversationTools == {"load_messages", "dump_messages"}

\* What a callable returns, written as a sequence of tokens: a str is the
\* sequence of its tokens, any other object (a dict, a list, None, a set) has
\* the token Object in front of the tokens of its value.
Object == "<object>"

TextResult == <<"tool_text">>
EmptyTextResult == <<>>
DictResult == <<Object, "tool_value">>
NoneResult == <<Object>>
SetResult == <<Object, "not_serializable">>
ToolResults == {TextResult, EmptyTextResult, DictResult, NoneResult, SetResult}

\* isinstance(tool_result, str)
isinstance_str(tool_result) == tool_result = <<>> \/ tool_result[1] # Object

\* json.dumps accepts the value (it raises TypeError on a set, on bytes, on
\* an object of a class of the tool)
serializable(tool_result) == tool_result # SetResult

\* A slip in the closing lines of execute_tool_call: the result is returned
\* as the callable gave it.
execute_tool_call_Raw(tool_result) == tool_result

\* execute_tool_call, lines 453-468: a str is returned as it is, anything
\* else as json.dumps({"output": tool_result, "warning": ...})
execute_tool_call(tool_result) ==
    IF isinstance_str(tool_result) THEN tool_result
    ELSE <<"output">> \o Tail(tool_result) \o <<"warning", "Tool function did not return a string.">>

\* The callable returned tool_result: execute_tool_call ends and the loop
\* appends the tool message (main, lines 251-264); json.dumps raising on the
\* result leaves execute_tool_call and the loop for the outer boundary.
ToolReturnsStep(tool_result) ==
    /\ pc = "running"
    /\ tool_calls[idx].name \notin ConversationTools
    /\ IF isinstance_str(tool_result) \/ serializable(tool_result)
       THEN /\ Answered(Append(messages, ToolMessage(tool_calls[idx], execute_tool_call(tool_result))), "tool_result")
            /\ UNCHANGED <<disk, saves>>
       ELSE /\ EndTurn(OuterExcept(messages), "unexpected_error_tool", Nothing)
            /\ UNCHANGED <<disk, turn, round, saves>>

ToolReturnsText == UNCHANGED pathVars /\ ToolReturnsStep(TextResult)

\* a result that is no str is wrapped: {"output": ..., "warning": ...}
ToolReturnsOther == UNCHANGED pathVars /\ ToolReturnsStep(DictResult)

\* the callable raises (an OS error in a tool body, arguments that do not fit
\* its signature), or json.dumps raises on what it returned: nothing catches
\* it before the outer boundary
ToolRaises ==
    /\ UNCHANGED pathVars
    /\ pc = "running"
    /\ EndTurn(OuterExcept(messages), "unexpected_error_tool", Nothing)
    /\ UNCHANGED <<disk, turn, round, saves>>

\* load_messages_wrapper (tools.py, lines 191-197)
load_messages_wrapper(msgs, d, filename) ==
    LET r == load_messages_from_file(d, filename) IN
    [messages |-> IF r.ok THEN r.msgs ELSE msgs, result |-> r.status]

LoadMessagesTool ==
    /\ UNCHANGED pathVars
    /\ pc = "running"
    /\ tool_calls[idx].name = "load_messages"
    /\ LET w == load_messages_wrapper(messages, disk, tool_calls[idx].file) IN
         Answered(Append(w.messages, ToolMessage(tool_calls[idx], <<"status", w.result>>)), "tool_result")
    /\ UNCHANGED <<disk, saves>>

\* dump_messages_wrapper (tools.py, lines 187-189)
DumpMessagesTool ==
    /\ UNCHANGED pathVars
    /\ pc = "running"
    /\ tool_calls[idx].name = "dump_messages"
    /\ saves' = saves + 1
    /\ \E io \in BOOLEAN :
         /\ disk' = dump_messages_to_file(disk, messages, tool_calls[idx].file, Epoch, io)
         /\ Answered(Append(messages, ToolMessage(tool_calls[idx], <<"status", dump_status(io)>>)), "tool_result")

(***************************************************************************)
(* Paths are strings: sequences of characters.  The functions of os.path   *)
(* that path_utils.py and write_to_file.py call, on POSIX.                 *)
(***************************************************************************)
Slash == <<"/">>

DotDot == <<".", ".">>

\* str.startswith
StartsWith(s, prefix) == Len(s) >= Len(prefix) /\ SubSeq(s, 1, Len(prefix)) = prefix

\* os.path.isabs
IsAbs(p) == StartsWith(p, Slash)

\* os.path.join(a, b)
Join(a, b) ==
    IF IsAbs(b) THEN b
    ELSE IF a = <<>> \/ a[Len(a)] = "/" THEN a \o b
    ELSE a \o Slash \o b

\* str.split("/")
RECURSIVE Split(_)
Split(p) ==
    IF p = <<>> THEN << <<>> >>
    ELSE LET r == Split(Tail(p)) IN
         IF Head(p) = "/" THEN << <<>> >> \o r
         ELSE << <<Head(p)>> \o r[1] >> \o Tail(r)

\* "/".join(comps)
RECURSIVE JoinSegs(_)
JoinSegs(comps) ==
    IF comps = <<>> THEN <<>>
    ELSE IF Len(comps) = 1 THEN comps[1]
    ELSE comps[1] \o Slash \o JoinSegs(Tail(comps))

\* the loop of posixpath.normpath over the components
RECURSIVE NormComps(_, _, _)
NormComps(comps, acc, initial_slashes) ==
    IF comps = <<>> THEN acc
    ELSE LET comp == Head(comps) IN
         IF comp = <<>> \/ comp = <<".">>
         THEN NormComps(Tail(comps), acc, initial_slashes)
         ELSE IF \/ comp # DotDot
                 \/ (initial_slashes = 0 /\ acc = <<>>)
                 \/ (acc # <<>> /\ acc[Len(acc)] = DotDot)
         THEN NormComps(Tail(comps), Append(acc, comp), initial_slashes)
         ELSE IF acc # <<>>
         THEN NormComps(Tail(comps), Pop(acc), initial_slashes)
         ELSE NormComps(Tail(comps), acc, initial_slashes)

\* posixpath.normpath
NormPath(p) ==
    IF p = <<>> THEN <<".">>
    ELSE LET initial_slashes ==
                 IF ~IsAbs(p) THEN 0
                 ELSE IF StartsWith(p, <<"/", "/">>) /\ ~StartsWith(p, <<"/", "/", "/">>) THEN 2
                 ELSE 1
             body == JoinSegs(NormComps(Split(p), <<>>, initial_slashes))
             path == [i \in 1..initial_slashes |-> "/"] \o body
         IN  IF path = <<>> THEN <<".">> ELSE path

\* os.getcwd()
Cwd == <<"/", "w">>

\* os.path.abspath
AbsPath(p) == NormPath(IF IsAbs(p) THEN p ELSE Join(Cwd, p))

\* str.rstrip("/")
RECURSIVE RStripSlash(_)
RStripSlash(p) ==
    IF p # <<>> /\ p[Len(p)] = "/" THEN RStripSlash(Pop(p)) ELSE p

\* the index after the last "/" of p (str.rfind("/") + 1)
LastSlash(p) ==
    LET at == {i \in 1..Len(p) : p[i] = "/"} IN
    IF at = {} THEN 0 ELSE CHOOSE i \in at : \A j \in at : j <= i

\* os.path.dirname
Dirname(p) ==
    LET head == SubSeq(p, 1, LastSlash(p)) IN
    IF head # <<>> /\ RStripSlash(head) # <<>> THEN RStripSlash(head) ELSE head

(***************************************************************************)
(* Path resolver (src/agent/tools/shared/path_utils.py).                   *)
(***************************************************************************)
\* The components of a normalized absolute path.
Components(p) == NormComps(Split(p), <<>>, 1)

\* The place path p names lies in the directory base or below it.
Within(p, base) ==
    /\ Len(Components(p)) >= Len(Components(base))
    /\ SubSeq(Components(p), 1, Len(Components(base))) = Components(base)

\* A stricter resolve_path: the containment test compares whole path
\* components, so a sibling directory whose name extends the base's name is
\* outside.
resolve_path_ByComponents(file_path, use_focus_path, focus) ==
    LET base_dir == IF use_focus_path /\ focus # <<>> THEN focus ELSE Cwd
        resolved_path == IF IsAbs(file_path) THEN file_path
                         ELSE AbsPath(Join(base_dir, file_path))
    IN  [resolved_path |-> resolved_path,
         base_dir |-> base_dir,
         is_in_base_dir |-> Within(resolved_path, base_dir)]

\* A slip in resolve_path: the prefix test looks at the joined path before it
\* is normalized.
resolve_path_Unnormalized(file_path, use_focus_path, focus) ==
    LET base_dir == IF use_focus_path /\ focus # <<>> THEN focus ELSE Cwd
        resolved_path == IF IsAbs(file_path) THEN file_path
                         ELSE AbsPath(Join(base_dir, file_path))
    IN  [resolved_path |-> resolved_path,
         base_dir |-> base_dir,
         is_in_base_dir |-> StartsWith(Join(base_dir, file_path), base_dir)]

\* A slip in resolve_path: the focus path is the base whenever it is set,
\* whatever use_focus_path says.
resolve_path_IgnoresFlag(file_path, use_focus_path, focus) ==
    LET base_dir == IF focus # <<>> THEN focus ELSE Cwd
        resolved_path == IF IsAbs(file_path) THEN file_path
                         ELSE AbsPath(Join(base_dir, file_path))
    IN  [resolved_path |-> resolved_path,
         base_dir |-> base_dir,
         is_in_base_dir |-> StartsWith(resolved_path, base_dir)]

\* resolve_path(file_path, use_focus_path) with the focus path `focus`
resolve_path(file_path, use_focus_path, focus) ==
    LET base_dir == IF use_focus_path /\ focus # <<>> THEN focus ELSE Cwd
        resolved_path == IF IsAbs(file_path) THEN file_path
                         ELSE AbsPath(Join(base_dir, file_path))
    IN  [resolved_path |-> resolved_path,
         base_dir |-> base_dir,
         is_in_base_dir |-> StartsWith(resolved_path, base_dir)]

(***************************************************************************)
(* The file system, as the kernel sees a path: its name components are     *)
(* walked from the root, every prefix has to be a directory.               *)
(***************************************************************************)
\* the components of the absolute path p after the walk, <<"?">> when a
\* component on the way is missing or is no directory
RECURSIVE Walk(_, _, _)
Walk(comps, at, dirs) ==
    IF comps = <<>> THEN at
    ELSE IF JoinSegs(at) \notin dirs THEN << <<"?">> >>
    ELSE LET comp == Head(comps) IN
         IF comp = <<>> \/ comp = <<".">> THEN Walk(Tail(comps), at, dirs)
         ELSE IF comp = DotDot
         THEN Walk(Tail(comps), IF at = <<>> THEN at ELSE Pop(at), dirs)
         ELSE Walk(Tail(comps), Append(at, comp), dirs)

\* the place an absolute path names: its components from the root
Place(p, dirs) == JoinSegs(Walk(Split(p), <<>>, dirs))

Missing == <<"?">>

\* os.path.exists
Exists(p, f) == Place(p, f.dirs) # Missing /\ Place(p, f.dirs) \in f.dirs \cup f.files

\* os.makedirs(p): the directories it creates (every prefix of p that is
\* missing), for a path whose prefixes are not files
Prefixes(p) == {JoinSegs(NormComps(SubSeq(Split(p), 1, n), <<>>, 1)) : n \in 1..Len(Split(p))}

MakeDirs(p, f) == [f EXCEPT !.dirs = f.dirs \cup Prefixes(p)]

\* the directories and files of the session's machine; a place is named by
\* its components joined with "/", the root by the empty string
InitialFs ==
    [dirs |-> {<<>>, <<"d">>, <<"d", "2">>, <<"w">>, <<"w", "/", "d">>},
     files |-> {<<"d", "/", "f">>}]

(***************************************************************************)
(* Texts: strings of characters, "\n" the line feed.  The contents a file   *)
(* can have and a tool call can propose.                                   *)
(***************************************************************************)
Texts == {<<>>, <<"a">>, <<"a", "\n">>, <<"a", "\n", "b">>, <<"b">>}

\* the text of the files of InitialFs
InitialContents == [p \in InitialFs.files |-> <<"a", "\n", "b">>]

\* the files after f.write(content) on the file at place `target`
WriteText(c, files, target, content) ==
    [p \in files |-> IF p = target THEN content ELSE c[p]]

(***************************************************************************)
(* Path arguments a tool call can carry: relative and absolute paths of up *)
(* to MaxSegs segments.                                                    *)
(***************************************************************************)
Segs == {<<"d">>, <<"d", "2">>, DotDot, <<"f">>}

SegLists == UNION {[1..n -> Segs] : n \in 0..MaxSegs}

PathArgs == {JoinSegs(sl) : sl \in SegLists} \cup {Slash \o JoinSegs(sl) : sl \in SegLists}

\* the --path option: absent, a relative or an absolute directory, an absolute
\* directory with a trailing slash, something that is no directory
FocusArgs == {<<>>, <<"d">>, <<"/", "d">>, <<"/", "d", "/">>, <<"/", "n">>}

NoCall ==
    [op |-> "none", file_path |-> <<>>, use_focus_path |-> TRUE,
     resolved_path |-> <<>>, base_dir |-> <<>>, is_in_base_dir |-> FALSE,
     status |-> "none", ops |-> <<>>]

PathInit ==
    /\ FOCUS_PATH = <<>>
    /\ focus_set = FALSE
    /\ call = NoCall
    /\ fs = InitialFs
    /\ writes = 0
    /\ contents = InitialContents
    /\ diffed = {}
    /\ clock = Epoch

\* A slip in the startup code: the focus path can be set again later in the run.
SetFocusPath_Again ==
    /\ \E focus_path \in FocusArgs :
         LET abs_focus_path == IF ~IsAbs(focus_path) THEN AbsPath(focus_path) ELSE focus_path IN
         FOCUS_PATH' = IF focus_path # <<>> /\ Exists(abs_focus_path, fs) /\ Place(abs_focus_path, fs.dirs) \in fs.dirs
                       THEN abs_focus_path ELSE <<>>
    /\ focus_set' = TRUE
    /\ UNCHANGED <<call, fs, writes, contents, diffed>>
    /\ UNCHANGED <<loopVars, clock>>

\* main, lines 74-107: the focus path is set from --path
SetFocusPath ==
    /\ ~focus_set
    /\ \E focus_path \in FocusArgs :
         LET abs_focus_path == IF ~IsAbs(focus_path) THEN AbsPath(focus_path) ELSE focus_path IN
         FOCUS_PATH' = IF focus_path # <<>> /\ Exists(abs_focus_path, fs) /\ Place(abs_focus_path, fs.dirs) \in fs.dirs
                       THEN abs_focus_path ELSE <<>>
    /\ focus_set' = TRUE
    /\ UNCHANGED <<call, fs, writes, contents, diffed>>
    /\ UNCHANGED <<loopVars, clock>>

\* a tool calls resolve_path
ResolvePathCall ==
    /\ focus_set
    /\ \E file_path \in PathArgs, use_focus_path \in BOOLEAN :
         \E r \in {resolve_path(file_path, use_focus_path, FOCUS_PATH)} :
         call' = [op |-> "resolve_path", file_path |-> file_path, use_focus_path |-> use_focus_path,
                  resolved_path |-> r.resolved_path, base_dir |-> r.base_dir,
                  is_in_base_dir |-> r.is_in_base_dir, status |-> "returned", ops |-> <<>>]
    /\ UNCHANGED <<FOCUS_PATH, focus_set, fs, writes, contents, diffed>>
    /\ UNCHANGED <<loopVars, clock>>

(***************************************************************************)
(* write_to_file (src/tools/file_operations/write_to_file.py), called with *)
(* a string path and string content.  io_mkdir and io_open are the         *)
(* outcomes of the operating system calls when nothing in the path itself  *)
(* makes them fail (FALSE: permission denied, disk full).                  *)
(***************************************************************************)
FsOp(op, at) == [op |-> op, at |-> at]

\* lines 45-55: the caller's check of resolve_path's third result
AccessDenied(r) == ~r.is_in_base_dir

write_to_file(file_path, use_focus_path, focus, f, io_mkdir, io_open) ==
    LET r == resolve_path(file_path, use_focus_path, focus)
        parent_dir == Dirname(r.resolved_path)
        need_mkdir == parent_dir # <<>> /\ ~Exists(parent_dir, f)
        mkdir_ok == io_mkdir /\ Prefixes(parent_dir) \cap f.files = {}
        f1 == IF need_mkdir /\ mkdir_ok THEN MakeDirs(parent_dir, f) ELSE f
        ops1 == IF need_mkdir /\ mkdir_ok THEN <<FsOp("makedirs", NormPath(parent_dir))>> ELSE <<>>
        target == Place(r.resolved_path, f1.dirs)
        open_ok == io_open /\ target # Missing /\ target \notin f1.dirs
    IN  IF AccessDenied(r)
        THEN [r |-> r, status |-> "access_denied", ops |-> <<>>, fs |-> f]
        ELSE IF need_mkdir /\ ~mkdir_ok
        THEN [r |-> r, status |-> "error", ops |-> <<>>, fs |-> f]
        ELSE IF ~open_ok
        THEN [r |-> r, status |-> "error", ops |-> ops1, fs |-> f1]
        ELSE [r |-> r, status |-> "success", ops |-> Append(ops1, FsOp("write", target)),
              fs |-> [f1 EXCEPT !.files = f1.files \cup {target}]]

\* the content argument of the calls that vary the path
NewText == <<"a">>

\* the model asks for write_to_file
WriteToFileCall ==
    /\ focus_set
    /\ writes < MaxWrites
    /\ writes' = writes + 1
    /\ \E file_path \in PathArgs, use_focus_path \in BOOLEAN, io_mkdir \in BOOLEAN, io_open \in BOOLEAN :
         \E w \in {write_to_file(file_path, use_focus_path, FOCUS_PATH, fs, io_mkdir, io_open)} :
         /\ call' = [op |-> "write_to_file", file_path |-> file_path, use_focus_path |-> use_focus_path,
                     resolved_path |-> w.r.resolved_path, base_dir |-> w.r.base_dir,
                     is_in_base_dir |-> w.r.is_in_base_dir, status |-> w.status, ops |-> w.ops]
         /\ fs' = w.fs
         /\ contents' = IF w.status = "success"
                         THEN WriteText(contents, w.fs.files, w.ops[Len(w.ops)].at, NewText)
                         ELSE contents
         /\ diffed' = IF w.status = "success" THEN diffed \ {w.ops[Len(w.ops)].at} ELSE diffed
    /\ UNCHANGED <<FOCUS_PATH, focus_set>>
    /\ UNCHANGED <<loopVars, clock>>

(***************************************************************************)
(* get_diff_for_proposed_changes                                           *)
(* (src/agent/tools/file_operations/get_diff_for_proposed_changes.py),     *)
(* called with a string path and string content.  io_read is the outcome   *)
(* of open/read when the path names a file (FALSE: permission denied).     *)
(***************************************************************************)
\* str.splitlines, for texts whose only line boundary is "\n"
RECURSIVE SplitLines(_)
SplitLines(t) ==
    IF t = <<>> THEN <<>>
    ELSE LET at == {i \in 1..Len(t) : t[i] = "\n"} IN
         IF at = {} THEN <<t>>
         ELSE LET i == CHOOSE i \in at : \A j \in at : i <= j IN
              <<SubSeq(t, 1, i - 1)>> \o SplitLines(SubSeq(t, i + 1, Len(t)))

\* number of leading lines two line lists share
RECURSIVE CommonPrefix(_, _)
CommonPrefix(a, b) ==
    IF a # <<>> /\ b # <<>> /\ Head(a) = Head(b) THEN 1 + CommonPrefix(Tail(a), Tail(b)) ELSE 0

Reverse(a) == [i \in 1..Len(a) |-> a[Len(a) + 1 - i]]

\* every line of `lines` behind the character `mark`
Marked(mark, lines) == [i \in 1..Len(lines) |-> <<mark>> \o lines[i]]

\* difflib.unified_diff(a, b, lineterm=""): nothing for equal line lists,
\* otherwise the two file headers, a hunk header and the hunk (the lines of
\* one hunk: both lists are shorter than the context of three lines); the
\* hunk of two lists that differ in one run of lines
unified_diff(a, b) ==
    IF a = b THEN <<>>
    ELSE LET pre == CommonPrefix(a, b)
             a1 == SubSeq(a, pre + 1, Len(a))
             b1 == SubSeq(b, pre + 1, Len(b))
             post == CommonPrefix(Reverse(a1), Reverse(b1))
         IN  << <<"-", "-", "-", " ">>, <<"+", "+", "+", " ">>, <<"@", "@">> >>
             \o Marked(" ", SubSeq(a, 1, pre))
             \o Marked("-", SubSeq(a1, 1, Len(a1) - post))
             \o Marked("+", SubSeq(b1, 1, Len(b1) - post))
             \o Marked(" ", SubSeq(a1, Len(a1) - post + 1, Len(a1)))

\* lines 86-101: the colour code put before a line of the diff
Colored(line) ==
    IF StartsWith(line, <<"+">>) THEN <<"GREEN">> \o line \o <<"RESET">>
    ELSE IF StartsWith(line, <<"-">>) THEN <<"RED">> \o line \o <<"RESET">>
    ELSE IF StartsWith(line, <<"@">>) THEN <<"CYAN">> \o line \o <<"RESET">>
    ELSE line

\* "\n".join(lines)
RECURSIVE JoinLines(_)
JoinLines(lines) ==
    IF lines = <<>> THEN <<>>
    ELSE IF Len(lines) = 1 THEN lines[1]
    ELSE lines[1] \o <<"\n">> \o JoinLines(Tail(lines))

\* A slip in get_diff_for_proposed_changes: the file is opened in a mode that
\* creates it when it is missing.
get_diff_CreatesMissing(file_path, proposed_new_content, use_focus_path, focus, f, c, io_read) ==
    LET r == resolve_path(file_path, use_focus_path, focus)
        place == Place(r.resolved_path, f.dirs)
        creates == r.is_in_base_dir /\ place # Missing /\ place \notin f.dirs \cup f.files
        f1 == IF creates THEN [f EXCEPT !.files = f.files \cup {place}] ELSE f
        c1 == IF creates THEN WriteText(c, f1.files, place, <<>>) ELSE c
        readable == r.is_in_base_dir /\ place \in f.files /\ io_read
        original_content == IF readable THEN c[place] ELSE <<>>
        diff == unified_diff(SplitLines(original_content), SplitLines(proposed_new_content))
        colored_diff == JoinLines([i \in 1..Len(diff) |-> Colored(diff[i])])
    IN  [r |-> r, original_content |-> original_content, diff |-> colored_diff,
         status |-> IF ~r.is_in_base_dir THEN "access_denied"
                    ELSE IF colored_diff = <<>> THEN "no_change" ELSE "success",
         fs |-> f1, contents |-> c1]

\* A slip in get_diff_for_proposed_changes: an empty diff is reported like any
\* other diff.
get_diff_NoSentinel(file_path, proposed_new_content, use_focus_path, focus, f, c, io_read) ==
    LET r == resolve_path(file_path, use_focus_path, focus)
        place == Place(r.resolved_path, f.dirs)
        readable == r.is_in_base_dir /\ place \in f.files /\ io_read
        original_content == IF readable THEN c[place] ELSE <<>>
        diff == unified_diff(SplitLines(original_content), SplitLines(proposed_new_content))
        colored_diff == JoinLines([i \in 1..Len(diff) |-> Colored(diff[i])])
    IN  [r |-> r, original_content |-> original_content, diff |-> colored_diff,
         status |-> IF ~r.is_in_base_dir THEN "access_denied" ELSE "success",
         fs |-> f, contents |-> c]

\* A slip in get_diff_for_proposed_changes: a file that does not exist is
\* reported as an error instead of being read as empty.
get_diff_MissingIsError(file_path, proposed_new_content, use_focus_path, focus, f, c, io_read) ==
    LET r == resolve_path(file_path, use_focus_path, focus)
        place == Place(r.resolved_path, f.dirs)
        readable == Exists(r.resolved_path, f) /\ place \in f.files /\ io_read
        original_content == IF readable THEN c[place] ELSE <<>>
        diff == unified_diff(SplitLines(original_content), SplitLines(proposed_new_content))
        colored_diff == JoinLines([i \in 1..Len(diff) |-> Colored(diff[i])])
    IN  [r |-> r, original_content |-> original_content,
         diff |-> IF Exists(r.resolved_path, f) THEN colored_diff ELSE <<>>,
         status |-> IF ~r.is_in_base_dir THEN "access_denied"
                    ELSE IF ~Exists(r.resolved_path, f) THEN "error"
                    ELSE IF colored_diff = <<>> THEN "no_change" ELSE "success",
         fs |-> f, contents |-> c]

\* The result of the call and the file system after it.  The statuses
\* "access_denied" and "error" are the two results whose JSON status is
\* "error".
get_diff_for_proposed_changes(file_path, proposed_new_content, use_focus_path, focus, f, c, io_read) ==
    LET r == resolve_path(file_path, use_focus_path, focus)
        place == Place(r.resolved_path, f.dirs)
        \* lines 65-79: the file is read when the path exists and open/read work
        \* (a directory exists, and opening it raises: the content stays "")
        readable == Exists(r.resolved_path, f) /\ place \in f.files /\ io_read
        original_content == IF readable THEN c[place] ELSE <<>>
        diff == unified_diff(SplitLines(original_content), SplitLines(proposed_new_content))
        colored_diff == JoinLines([i \in 1..Len(diff) |-> Colored(diff[i])])
    IN  [r |-> r, original_content |-> original_content, diff |-> colored_diff,
         status |-> IF ~r.is_in_base_dir THEN "access_denied"
                    ELSE IF colored_diff = <<>> THEN "no_change" ELSE "success",
         fs |-> f, contents |-> c]

(***************************************************************************)
(* The editing workflow: the remote model asks for a diff of a file and    *)
(* for a write, with the paths of one working file and any text;           *)
(* use_focus_path is left at its default.                                  *)
(***************************************************************************)
EditArgs == {<<"f">>, <<"g">>, <<"d">>, <<"/", "d", "/", "f">>}

\* the model asks for get_diff_for_proposed_changes; main shows the result
\* (display_tool_result)
GetDiffCall ==
    /\ focus_set
    /\ \E file_path \in EditArgs, proposed_new_content \in Texts,
          use_focus_path \in {TRUE}, io_read \in BOOLEAN :
         \E d \in {get_diff_for_proposed_changes(file_path, proposed_new_content, use_focus_path,
                                                FOCUS_PATH, fs, contents, io_read)} :
         \E place \in {Place(d.r.resolved_path, fs.dirs)} :
         /\ call' = [op |-> "get_diff_for_proposed_changes", file_path |-> file_path,
                     use_focus_path |-> use_focus_path, proposed |-> proposed_new_content,
                     io_read |-> io_read,
                     resolved_path |-> d.r.resolved_path, base_dir |-> d.r.base_dir,
                     is_in_base_dir |-> d.r.is_in_base_dir, status |-> d.status,
                     original_content |-> d.original_content, diff |-> d.diff, ops |-> <<>>]
         /\ fs' = d.fs
         /\ contents' = d.contents
         /\ diffed' = IF d.status \in {"success", "no_change"} /\ place \in fs.files THEN diffed \cup {place} ELSE diffed
    /\ UNCHANGED <<FOCUS_PATH, focus_set, writes>>
    /\ UNCHANGED <<loopVars, clock>>

\* the model asks for write_to_file with the new content of the file; main
\* dispatches the call (lines 243-251)
EditFileCall ==
    /\ focus_set
    /\ writes < MaxEdits
    /\ writes' = writes + 1
    /\ \E file_path \in EditArgs, content \in Texts, use_focus_path \in {TRUE}, io_open \in BOOLEAN :
         \* the parent directory of every path of EditArgs exists: makedirs is not called
         \E w \in {write_to_file(file_path, use_focus_path, FOCUS_PATH, fs, TRUE, io_open)} :
         /\ call' = [op |-> "write_to_file", file_path |-> file_path, use_focus_path |-> use_focus_path,
                     resolved_path |-> w.r.resolved_path, base_dir |-> w.r.base_dir,
                     is_in_base_dir |-> w.r.is_in_base_dir, status |-> w.status, ops |-> w.ops]
         /\ fs' = w.fs
         /\ contents' = IF w.status = "success"
                         THEN WriteText(contents, w.fs.files, w.ops[Len(w.ops)].at, content)
                         ELSE contents
         /\ diffed' = IF w.status = "success" THEN diffed \ {w.ops[Len(w.ops)].at} ELSE diffed
    /\ UNCHANGED <<FOCUS_PATH, focus_set>>
    /\ UNCHANGED <<loopVars, clock>>

(***************************************************************************)
(* The orchestration loop.                                                 *)
(***************************************************************************)
Next ==
    \/ Startup
    \/ InputEOF \/ InputEmpty \/ CmdQuit \/ CmdSave \/ CmdLoad \/ CmdClear \/ CmdHelp
    \/ UserPrompt
    \/ ApiRaises \/ ApiInvalid \/ ApiNoMessage \/ ApiMessage
    \/ ToolUnknown \/ ToolBadArguments \/ ToolArgumentsNotMapping \/ ToolInvoke
    \/ ToolReturnsText \/ ToolReturnsOther \/ ToolRaises
    \/ LoadMessagesTool \/ DumpMessagesTool
    \/ SendFollowUp
    \/ FollowUpRaises \/ FollowUpInvalid \/ FollowUpNoMessage \/ FollowUpMessage

Init == LoopInit /\ PathInit

Spec == Init /\ [][Next]_vars

(***************************************************************************)
(* The path resolver, called with any path argument.                       *)
(***************************************************************************)
PathNext == SetFocusPath \/ ResolvePathCall

SpecPath == Init /\ [][PathNext]_vars


(***************************************************************************)
(* Claims about the orchestration loop.                                    *)
(***************************************************************************)
\* All requests of the round in progress have been processed.
RoundFinished == pc \in {"tools", "model2"} /\ idx > Len(tool_calls)

\* The prompt of the current turn is still in the message list.
TurnPromptKept == \E i \in 1..Len(messages) : messages[i].role = "user" /\ messages[i].turn = turn

\* C1: when a round finishes, the message list ends with the assistant message
\* that carried the requests, followed by exactly one tool message per request,
\* in request order, each with the request's id - whatever the requests were
\* (a tool that ran, an unknown tool, undecodable arguments, load_messages).
C1_RoundAnswered ==
    RoundFinished =>
        LET n == Len(tool_calls)
            L == Len(messages) IN
        /\ L >= n + 1
        /\ messages[L - n].role = "assistant"
        /\ messages[L - n].calls = tool_calls
        /\ \A i \in 1..n :
             /\ messages[L - n + i].role = "tool"
             /\ messages[L - n + i].id = tool_calls[i].id

\* C2: the message list is never empty and its first message is the system
\* message, in every state of a session.
C2_FirstIsSystem == Len(messages) > 0 /\ messages[1].role = "system"

\* C3: after a tool callable raised, the turn is aborted: the loop awaits
\* input and the prompt of the turn has been removed from the message list.
C3_ToolExceptionRollsBack ==
    console = "unexpected_error_tool" => pc = "input" /\ ~TurnPromptKept

\* C4: after a chat request failed (first request of a turn or follow-up
\* request), the loop awaits input and the prompt of the turn has been removed.
C4_RequestFailureRollsBack ==
    console = "unexpected_error_request" => pc = "input" /\ ~TurnPromptKept

\* C5: after a structurally invalid response (no choices, or no message in the
\* first choice) to the first or a follow-up request, the loop awaits input and
\* the prompt of the turn has been removed.
C5_InvalidResponseRollsBack ==
    console \in {"invalid_response", "no_message"} => pc = "input" /\ ~TurnPromptKept

\* C6: a request for a tool that is not in the dispatch table does not raise:
\* the step appends the tool message with the request's id and the "not found"
\* error naming the tool, and goes on with the next request; from a finished
\* round the only step is sending the follow-up request, messages unchanged.
C6_UnknownToolAnswered ==
    /\ [][(pc = "tools" /\ idx <= Len(tool_calls)
              /\ tool_calls[idx].name \notin available_functions)
           => /\ messages' = Append(messages,
                    [role |-> "tool", id |-> tool_calls[idx].id, name |-> tool_calls[idx].name,
                     content |-> <<"error", "Function", tool_calls[idx].name,
                                   "not found by the client application.">>,
                     calls |-> <<>>, turn |-> 0])
              /\ pc' = "tools"
              /\ idx' = idx + 1
              /\ tool_calls' = tool_calls]_vars
    /\ [][RoundFinished /\ pc = "tools" => pc' = "model2" /\ messages' = messages]_vars

\* C6 witness: a round of two requests whose first named an unknown tool has
\* been processed and the follow-up request is out.
C6_Witness ==
    /\ pc = "model2"
    /\ Len(tool_calls) = 2
    /\ tool_calls[1].name \notin available_functions
    /\ messages[Len(messages) - 1].content = NotFoundContent(tool_calls[1].name)
    /\ messages[Len(messages) - 1].id = tool_calls[1].id

\* C7: a request for a registered tool whose arguments do not decode to a
\* mapping is answered by a synthetic error tool message with the request's id,
\* the callable is not started and the round goes on with the next request.
C7_UndecodableArgumentsAnswered ==
    [][(pc = "tools" /\ idx <= Len(tool_calls)
           /\ tool_calls[idx].name \in available_functions
           /\ tool_calls[idx].args \in {"bad", "nonmap"})
        => /\ messages' = Append(messages, ToolMessage(tool_calls[idx], InvalidArgsContent))
           /\ pc' = "tools"
           /\ idx' = idx + 1]_vars

Invocations == SelectSeq(log, LAMBDA e : e.e = "invoke")

Appends == SelectSeq(log, LAMBDA e : e.e = "append")

\* The record of the round in progress: appends are those of requests 1, 2, ...
\* in order, invocations are in request order, every invocation is directly
\* followed by the append of its request, and a chat request is out only with
\* an empty record (first request) or a complete one (follow-up).
C8_LogInOrder ==
    /\ \A p \in 1..Len(Appends) :
         /\ Appends[p].i = p
         /\ p <= Len(tool_calls)
    /\ \A p, q \in 1..Len(Invocations) : p < q => Invocations[p].i < Invocations[q].i
    /\ \A p \in 1..Len(log) :
         log[p].e = "invoke" =>
            /\ Len(SelectSeq(SubSeq(log, 1, p), LAMBDA e : e.e = "append")) = log[p].i - 1
            /\ IF p = Len(log) THEN pc = "running" /\ idx = log[p].i
                               ELSE log[p + 1] = Event("append", log[p].i)
    /\ pc = "running" => Len(log) > 0 /\ log[Len(log)] = Event("invoke", idx)
    /\ pc = "model" => log = <<>>
    /\ pc = "model2" => Len(Appends) = Len(tool_calls)

\* C8: in a round the callables run one at a time, in request order, at most
\* once per request; the tool message of a request is appended before the next
\* callable starts; a chat request is out only when no round is in progress or
\* every request of the round has its tool message.
C8_SequentialInOrder ==
    /\ []C8_LogInOrder
    /\ [][pc = "running" /\ pc' = "tools"
            => /\ log' = Append(log, Event("append", idx))
               /\ Len(messages') > 0
               /\ messages'[Len(messages')].role = "tool"
               /\ messages'[Len(messages')].id = tool_calls[idx].id
               /\ tool_calls' = tool_calls]_vars
    /\ [][pc' = "model2" => pc \in {"tools", "model2"} /\ idx > Len(tool_calls)]_vars

\* C8 witness: both callables of a two-request round have run, in order, and
\* the follow-up request is out.
C8_Witness ==
    /\ pc = "model2"
    /\ log = <<Event("invoke", 1), Event("append", 1), Event("invoke", 2), Event("append", 2)>>


(***************************************************************************)
(* write_to_file, called with any path argument.                           *)
(***************************************************************************)
WriteNext == SetFocusPath \/ WriteToFileCall

SpecWrite == Init /\ [][WriteNext]_vars

(***************************************************************************)
(* Claims about the path resolver and the base-directory check.           *)
(***************************************************************************)
\* The argument has a ".." segment.
Climbs(file_path) == \E i \in 1..Len(Split(file_path)) : Split(file_path)[i] = DotDot

\* C9: for every path argument whose target lies outside the base directory,
\* write_to_file returns the access-denied error and performs no file system
\* operation (no directory is created, no file is written).
C9_OutsideIsDenied ==
    (call.op = "write_to_file" /\ ~Within(call.resolved_path, call.base_dir))
        => call.status = "access_denied" /\ call.ops = <<>>

EditNext == SetFocusPath \/ GetDiffCall \/ EditFileCall

SpecEdit == Init /\ [][EditNext]_vars

\* The file a successful write_to_file call wrote.
Target(c) == c.ops[Len(c.ops)].at

\* C12: a write_to_file call that the loop dispatches on a file that exists
\* is preceded, since the last change of that file, by a
\* get_diff_for_proposed_changes call for the file whose result was shown.
C12_WriteFollowsDiff ==
    [][(writes' = writes + 1 /\ call'.status = "success" /\ Target(call') \in fs.files)
          => Target(call') \in diffed]_vars

\* C13: get_diff_for_proposed_changes leaves the file system as it was on
\* every path through it (success, no_change, access denied, missing file,
\* read error): no directory or file appears or disappears, no text changes.
C13_DiffOnlyReads ==
    [][call'.op = "get_diff_for_proposed_changes" => fs' = fs /\ contents' = contents]_vars

\* C13 witness: a diff has been computed for a file that does not exist, and
\* the file still does not exist.
C13_Witness ==
    /\ call.op = "get_diff_for_proposed_changes"
    /\ call.status = "success"
    /\ call.is_in_base_dir
    /\ Place(call.resolved_path, fs.dirs) \notin fs.dirs \cup fs.files \cup {Missing}

\* C14: for any text X, the diff of a file whose content is X against the
\* proposed content X is the no-change result, which is neither the success
\* result nor an error result.
C14_SameTextNoChange ==
    (/\ call.op = "get_diff_for_proposed_changes"
     /\ call.is_in_base_dir
     /\ call.io_read
     /\ Place(call.resolved_path, fs.dirs) \in fs.files
     /\ contents[Place(call.resolved_path, fs.dirs)] = call.proposed)
        => /\ call.status = "no_change"
           /\ call.diff = <<>>
           /\ call.status \notin {"success", "error", "access_denied"}

\* C14 witness: a file was written with the one-line text "a" and then diffed
\* against the proposed text "a": no change.
C14_Witness ==
    /\ call.op = "get_diff_for_proposed_changes"
    /\ writes = 1
    /\ call.proposed = <<"a">>
    /\ Place(call.resolved_path, fs.dirs) \in fs.files
    /\ contents[Place(call.resolved_path, fs.dirs)] = <<"a">>
    /\ call.status = "no_change"

(***************************************************************************)
(* prune_messages, called with any message list and any max_items.         *)
(***************************************************************************)
MessageLists ==
    UNION {[1..n -> {SystemMessage, UserMessage(0), AssistantMessage(<<"text">>, <<>>)}] : n \in 0..MaxLen}

PruneCall ==
    /\ \E messages_list \in MessageLists, max_items \in 0..MaxItems :
         call' = [op |-> "prune_messages", messages_list |-> messages_list, max_items |-> max_items,
                  pruned_list |-> prune_messages(messages_list, max_items)]
    /\ UNCHANGED <<FOCUS_PATH, focus_set, fs, writes, contents, diffed>>
    /\ UNCHANGED <<loopVars, clock>>

SpecPrune == Init /\ [][PruneCall]_vars

\* C15: for every message list M and max_items n, prune_messages(M, n) is M
\* when len(M) <= n + 1; otherwise it has n + 1 elements, the first is M[0]
\* and the others are the last n elements of M in order.
C15_PruneKeepsWindow ==
    call.op = "prune_messages" =>
        LET M == call.messages_list
            n == call.max_items
            R == call.pruned_list IN
        IF Len(M) <= n + 1 THEN R = M
        ELSE /\ Len(R) = n + 1
             /\ R[1] = M[1]
             /\ SubSeq(R, 2, Len(R)) = SubSeq(M, Len(M) - n + 1, Len(M))

(***************************************************************************)
(* A session that starts next to a long saved conversation: the system     *)
(* message and five turns, more than the window of a request after the     *)
(* next prompt.                                                            *)
(***************************************************************************)
LongTalk == <<SystemMessage>> \o OldTurn \o OldTurn \o OldTurn \o OldTurn \o OldTurn

InitLong ==
    /\ PathInit
    /\ messages = <<SystemMessage>>
    /\ pc = "start"
    /\ tool_calls = <<>>
    /\ idx = 1
    /\ response_message = NoMessage
    /\ console = "logo"
    /\ rendered = Nothing
    /\ disk = [f \in FileNames |-> IF f = Legacy THEN Envelope(LongTalk, Epoch) ELSE Absent]
    /\ turn = 0
    /\ round = 0
    /\ saves = 0
    /\ log = <<>>
    /\ messages_for_api = <<>>

SpecLong == InitLong /\ [][Next]_vars

\* C16: pruning before a request never changes the message list: the step
\* that sends a request leaves every message the list held in place (the
\* first request of a turn after appending the prompt), and what is in flight
\* is the pruned copy of the list, however long the list is.
C16_PruningKeepsList ==
    /\ [][pc = "input" /\ pc' = "model"
            => /\ messages' = Append(messages, UserMessage(turn'))
               /\ messages_for_api' = prune_messages(messages', KeepRecent)]_vars
    /\ [][pc = "tools" /\ pc' = "model2"
            => /\ messages' = messages
               /\ messages_for_api' = prune_messages(messages, KeepRecent)]_vars
    /\ [](pc \in {"model", "model2"} => messages_for_api = prune_messages(messages, KeepRecent))

\* C16 witness: a follow-up request is in flight with the window of a list
\* that is longer than the window, and the list is whole.
C16_Witness ==
    /\ pc = "model2"
    /\ Len(messages) > KeepRecent + 1
    /\ Len(messages_for_api) = KeepRecent + 1
    /\ SubSeq(messages, 1, Len(LongTalk)) = LongTalk

(***************************************************************************)
(* The conversation store on its own: snapshots are saved and loaded by    *)
(* name while time passes, in a directory that also holds files of other   *)
(* shapes.                                                                 *)
(***************************************************************************)
Junk == <<"junk", ".json">>

Obj == <<"obj", ".json">>

Notes == <<"notes", ".json">>

SavedLists ==
    {<<>>, <<SystemMessage>>, <<SystemMessage, UserMessage(1)>>,
     <<SystemMessage, UserMessage(1), AssistantMessage(<<"text">>, <<>>)>>}

SaveArgs == {NoName, <<"talk">>, <<"talk", ".json">>}

LoadArgs == {<<"talk">>, <<"talk", ".json">>, <<"legacy">>, <<"junk">>, <<"obj">>, <<"notes">>, <<"missing">>}

InitStore ==
    /\ PathInit
    /\ messages = <<SystemMessage>>
    /\ pc = "start"
    /\ tool_calls = <<>>
    /\ idx = 1
    /\ response_message = NoMessage
    /\ console = "logo"
    /\ rendered = Nothing
    /\ disk = [f \in FileNames \cup {Junk, Obj, AltPath(Notes)} |->
                 CASE f = Legacy -> BareList(OldTurn)
                   [] f = Out -> Absent
                   [] f = Junk -> Garbage
                   [] f = Obj -> JsonObject
                   [] f = AltPath(Notes) -> BareList(OldTurn)]
    /\ turn = 0
    /\ round = 0
    /\ saves = 0
    /\ log = <<>>
    /\ messages_for_api = <<>>

\* a second passes
Tick ==
    /\ clock < MaxClock
    /\ clock' = clock + 1
    /\ UNCHANGED <<FOCUS_PATH, focus_set, call, fs, writes, contents, diffed>>
    /\ UNCHANGED loopVars

\* dump_messages_to_file(messages, filename)
SaveCall ==
    /\ saves < MaxStores
    /\ \E msgs \in SavedLists, filename \in SaveArgs, io \in BOOLEAN :
         /\ disk' = dump_messages_to_file(disk, msgs, filename, clock, io)
         /\ call' = [op |-> "dump_messages_to_file", messages |-> msgs, filename |-> filename,
                     status |-> dump_status(io), file_path |-> conversation_file(filename, clock), io |-> io]
    /\ saves' = saves + 1
    /\ UNCHANGED <<FOCUS_PATH, focus_set, fs, writes, contents, diffed, clock>>
    /\ UNCHANGED <<messages, pc, tool_calls, idx, response_message, console, rendered, turn, round, log,
                   messages_for_api>>

\* load_messages_from_file(filename)
LoadCall ==
    /\ \E filename \in LoadArgs :
         \E l \in {load_messages_from_file(disk, filename)} :
           call' = [op |-> "load_messages_from_file", filename |-> filename, status |-> l.status,
                    ok |-> l.ok, loaded_messages |-> l.msgs, metadata |-> l.metadata,
                    shape |-> (IF Lookup(disk, WithJson(filename)) # Absent
                               THEN Lookup(disk, WithJson(filename))
                               ELSE Lookup(disk, AltPath(WithJson(filename)))).shape]
    /\ UNCHANGED <<FOCUS_PATH, focus_set, fs, writes, contents, diffed, clock>>
    /\ UNCHANGED loopVars

StoreNext == Tick \/ SaveCall \/ LoadCall

SpecStore == InitStore /\ [][StoreNext]_vars

\* C17: saving a message list M under a file name and then loading that name
\* returns a success status and a loaded list equal to M, and the metadata of
\* the load result carries the model identifier that was saved.
C17_SaveThenLoad ==
    (call.op = "dump_messages_to_file" /\ call.status = "success" /\ call.filename # NoName) =>
        LET l == load_messages_from_file(disk, call.filename) IN
        /\ l.ok
        /\ l.status = "success"
        /\ l.msgs = call.messages
        /\ l.metadata.model = LLM_MODEL

\* C17 witness: a list of three messages has been saved under a name given
\* without the extension.
C17_Witness ==
    /\ call.op = "dump_messages_to_file"
    /\ call.status = "success"
    /\ call.filename = <<"talk">>
    /\ Len(call.messages) = 3

\* C18: a save without an explicit file name never overwrites a snapshot
\* that is on the disk, also when it follows another such save within the
\* same second: the earlier snapshot stays retrievable.
C18_UnnamedSavesKeepApart ==
    [][(saves' = saves + 1 /\ call'.op = "dump_messages_to_file" /\ call'.status = "success"
          /\ call'.filename = NoName)
         => \A k \in DOMAIN disk : disk'[k] = disk[k]]_vars

\* C19: a load of a file that is missing, is no JSON, or has an unexpected
\* payload shape reports the status "error" and no loaded list, and a save
\* that hits an OS failure reports the status "error".
C19_FailuresReportError ==
    /\ (call.op = "load_messages_from_file" /\ call.shape \in {"absent", "garbage", "object"})
          => (call.status = "error" /\ ~call.ok)
    /\ (call.op = "dump_messages_to_file" /\ ~call.io) => call.status = "error"

(***************************************************************************)
(* Tool discovery (src/agent/tools.py, find_all_tool_modules).  The tools  *)
(* directory is the sequence of its entries in listing order: modules and  *)
(* packages (directories with __init__.py) of modules.  A module is        *)
(*   tool    get_tool_definition returns one definition, named `name`      *)
(*   tools   get_tool_definition returns a list with a definition per name *)
(*   helper  a module without get_tool_definition                          *)
(*   raises  the import raises an Exception (ImportError, SyntaxError, ...) *)
(*   exits   the import raises SystemExit, which is no Exception           *)
(***************************************************************************)
ToolNames == {"a", "b"}

Module(kind, name) == [kind |-> kind, name |-> name, items |-> <<>>]

Package(items) == [kind |-> "package", name |-> "", items |-> items]

Modules ==
    {Module("tool", n) : n \in ToolNames}
        \cup {Module("tools", ""), Module("helper", ""), Module("raises", ""), Module("exits", "")}

Listings(S, n) == UNION {[1..k -> S] : k \in 0..n}

Packages == {Package(items) : items \in Listings(Modules, MaxNested)}

ToolDirs == Listings(Modules \cup Packages, MaxModules)

EmptyRegistry == [n \in {} |-> <<>>]

\* modules_found[function_name] = (module, full_module_path)
Register(modules_found, function_name, path) ==
    [n \in DOMAIN modules_found \cup {function_name} |->
        IF n = function_name THEN path ELSE modules_found[n]]

RECURSIVE RegisterAll(_, _, _)
RegisterAll(modules_found, names, path) ==
    IF names = {} THEN modules_found
    ELSE LET n == CHOOSE x \in names : TRUE IN
         RegisterAll(Register(modules_found, n, path), names \ {n}, path)

\* modules_found.update(sub_modules)
UpdateRegistry(modules_found, sub_modules) ==
    [n \in DOMAIN modules_found \cup DOMAIN sub_modules |->
        IF n \in DOMAIN sub_modules THEN sub_modules[n] ELSE modules_found[n]]

\* explore_dir from entry i on; acc is modules_found so far.  raised = TRUE:
\* an exception left the function.
RECURSIVE explore_dir(_, _, _, _)
explore_dir(directory, i, path, acc) ==
    IF i > Len(directory) THEN [raised |-> FALSE, modules_found |-> acc]
    ELSE LET item == directory[i]
             item_path == Append(path, i) IN
         CASE item.kind = "package" ->
                LET sub_modules == explore_dir(item.items, 1, item_path, EmptyRegistry) IN
                IF sub_modules.raised THEN [raised |-> TRUE, modules_found |-> EmptyRegistry]
                ELSE explore_dir(directory, i + 1, path, UpdateRegistry(acc, sub_modules.modules_found))
           [] item.kind = "tool" ->
                explore_dir(directory, i + 1, path, Register(acc, item.name, item_path))
           [] item.kind = "tools" ->
                explore_dir(directory, i + 1, path, RegisterAll(acc, ToolNames, item_path))
           [] item.kind = "helper" ->
                explore_dir(directory, i + 1, path, acc)
           [] item.kind = "raises" ->
                \* except Exception: the warning is printed, the scan goes on
                explore_dir(directory, i + 1, path, acc)
           [] item.kind = "exits" ->
                \* SystemExit passes the except Exception clause
                [raised |-> TRUE, modules_found |-> EmptyRegistry]

\* exists = FALSE: there is no tools directory
find_all_tool_modules(exists, tools_dir) ==
    IF ~exists THEN [raised |-> FALSE, modules_found |-> EmptyRegistry]
    ELSE explore_dir(tools_dir, 1, <<>>, EmptyRegistry)

FindAllToolModules ==
    /\ \E tools_dir \in ToolDirs, exists \in BOOLEAN :
         /\ exists \/ tools_dir = <<>>
         /\ \E r \in {find_all_tool_modules(exists, tools_dir)} :
              call' = [op |-> "find_all_tool_modules", tools_dir |-> tools_dir, exists |-> exists,
                       raised |-> r.raised, all_tool_modules |-> r.modules_found]
    /\ UNCHANGED <<FOCUS_PATH, focus_set, fs, writes, contents, diffed, clock>>
    /\ UNCHANGED loopVars

SpecTools == Init /\ [][FindAllToolModules]_vars

\* the tools that the well-formed modules of a directory define
RECURSIVE DefinedTools(_, _)
DefinedTools(directory, i) ==
    IF i > Len(directory) THEN {}
    ELSE LET item == directory[i] IN
         (CASE item.kind = "package" -> DefinedTools(item.items, 1)
            [] item.kind = "tool" -> {item.name}
            [] item.kind = "tools" -> ToolNames
            [] OTHER -> {}) \cup DefinedTools(directory, i + 1)

\* C20: for a tools directory with any mix of modules that raise on import
\* and well-formed modules, find_all_tool_modules returns without raising
\* and the registry holds exactly the tools of the well-formed modules.
C20_DiscoveryNeverAborts ==
    call.op = "find_all_tool_modules" =>
        /\ ~call.raised
        /\ DOMAIN call.all_tool_modules = DefinedTools(call.tools_dir, 1)

(***************************************************************************)
(* The dispatch table as get_available_functions builds it from the        *)
(* registry the discovery scan returned.  For every name the scan either   *)
(* found no module, a module with a callable of that name, or a module     *)
(* without one; a table entry is the explicitly registered callable or the *)
(* callable of the discovered module.                                      *)
(***************************************************************************)
Imported == {"read_file_content", "write_to_file", "create_empty_file", "move_files"}

Wrappers == {"dump_messages", "load_messages"}

DiscoveredNames == Imported \cup Wrappers \cup {"git_status"}

Registries == [DiscoveredNames -> {"none", "module", "module_without_function"}]

get_available_functions(tool_modules) ==
    LET found == {n \in DiscoveredNames : n \notin Wrappers /\ tool_modules[n] = "module"} IN
    [n \in Imported \cup Wrappers \cup found |-> IF n \in found THEN "discovered" ELSE "explicit"]

GetAvailableFunctions ==
    /\ \E tool_modules \in Registries :
         call' = [op |-> "get_available_functions", tool_modules |-> tool_modules,
                  table |-> get_available_functions(tool_modules)]
    /\ UNCHANGED <<FOCUS_PATH, focus_set, fs, writes, contents, diffed, clock>>
    /\ UNCHANGED loopVars

SpecTable == Init /\ [][GetAvailableFunctions]_vars

\* C21: in the dispatch table every directly registered built-in tool
\* (read_file_content, write_to_file, create_empty_file, move_files,
\* dump_messages, load_messages) maps to the explicitly registered callable,
\* whatever the discovery scan finds under that name.
C21_ExplicitTakesPrecedence ==
    call.op = "get_available_functions" =>
        /\ available_functions \subseteq DOMAIN call.table
        /\ \A n \in available_functions : call.table[n] = "explicit"

InitOdd ==
    /\ PathInit
    /\ messages = <<SystemMessage>>
    /\ pc = "start"
    /\ tool_calls = <<>>
    /\ idx = 1
    /\ response_message = NoMessage
    /\ console = "logo"
    /\ rendered = Nothing
    /\ disk = [f \in FileNames |-> IF f = Legacy THEN BareList(<<Roleless>>) ELSE Absent]
    /\ turn = 0
    /\ round = 0
    /\ saves = 0
    /\ log = <<>>
    /\ messages_for_api = <<>>

SpecOdd == InitOdd /\ [][Next]_vars

\* C23: once the loop has been entered the session ends only on end of
\* input or on an exit/quit command: the process never ends on an error
\* (failed request, malformed response, tool exception, bad arguments,
\* unknown tool, failed save or load, loaded conversation of unexpected
\* shape).
C23_EndsOnlyOnRequest ==
    /\ [](pc # "crashed")
    /\ [][(pc' = "exited" /\ pc # "exited") => (pc = "input" /\ console' = "goodbye")]_vars

(***************************************************************************)
(* The loop with the typed line on record: the prompt returns a line of    *)
(* Lines, or raises EOFError, and the loop takes the route of that line.   *)
(***************************************************************************)
PromptLine ==
    /\ \E user_prompt \in Lines :
         /\ call' = [op |-> "prompt", user_prompt |-> user_prompt]
         /\ handle_line(user_prompt)
    /\ UNCHANGED <<FOCUS_PATH, focus_set, fs, writes, contents, diffed, clock>>

PromptEOF ==
    /\ call' = [op |-> "prompt", user_prompt |-> EndOfInput]
    /\ InputEOFStep
    /\ UNCHANGED <<FOCUS_PATH, focus_set, fs, writes, contents, diffed, clock>>

PromptNext ==
    \/ Startup
    \/ PromptLine \/ PromptEOF
    \/ ApiRaises \/ ApiInvalid \/ ApiNoMessage \/ ApiMessage
    \/ ToolUnknown \/ ToolBadArguments \/ ToolArgumentsNotMapping \/ ToolInvoke
    \/ ToolReturnsText \/ ToolReturnsOther \/ ToolRaises
    \/ LoadMessagesTool \/ DumpMessagesTool
    \/ SendFollowUp
    \/ FollowUpRaises \/ FollowUpInvalid \/ FollowUpNoMessage \/ FollowUpMessage

SpecPrompt == InitOdd /\ [][PromptNext]_vars

\* C24: an empty or whitespace-only line leaves the message list as it is,
\* sends no request to the model, runs no tool and no command, and leaves
\* the loop waiting for the next line.
C24_EmptyLineNoEffect ==
    [][(pc = "input" /\ call'.op = "prompt" /\ IsEmptyLine(call'.user_prompt))
         => /\ messages' = messages
            /\ pc' = "input"
            /\ messages_for_api' = <<>>
            /\ log' = log /\ round' = round /\ turn' = turn
            /\ disk' = disk /\ saves' = saves
            /\ console' = console]_vars

\* C24 witness: after a turn that was answered, a line of one blank has been
\* read and the loop waits for the next line.
C24_Witness ==
    /\ call.op = "prompt"
    /\ call.user_prompt = <<" ">>
    /\ pc = "input"
    /\ console = "answer"
    /\ turn = 1

\* C25: handling a recognized control command (save, load, clear, help, exit,
\* quit) appends no user message, sends no request to the model and runs no
\* tool; afterwards the loop waits for the next line, or has exited for
\* exit and quit.
C25_CommandsStayLocal ==
    [][(pc = "input" /\ call'.op = "prompt" /\ ~IsEmptyLine(call'.user_prompt)
          /\ base_cmd(call'.user_prompt) \in {"save", "load", "clear", "help", "exit", "quit"})
         => /\ turn' = turn
            /\ messages' # Append(messages, UserMessage(turn + 1))
            /\ messages_for_api' = <<>>
            /\ round' = round /\ log' = log /\ tool_calls' = tool_calls
            /\ \/ pc' = "input"
               \/ pc' = "exited" /\ base_cmd(call'.user_prompt) \in {"exit", "quit"}]_vars

\* C26: the text rendered as the final answer of a turn is the content of an
\* assistant message that carries no tool calls; when the turn ends without
\* such a message with content, also after an invalid follow-up response,
\* the "no further content" notice is shown instead.
C26_RenderedIsFinalAnswer ==
    /\ rendered.role \notin {"nothing", "none"}
          => (rendered.role = "assistant" /\ rendered.calls = <<>> /\ rendered.content # <<>>)
    /\ (pc = "input" /\ console \in {"answer", "invalid_response", "no_message"} /\ rendered # Nothing
           /\ ~(messages[Len(messages)].role = "assistant" /\ messages[Len(messages)].calls = <<>>
                 /\ messages[Len(messages)].content # <<>>))
          => rendered = NoMessage

\* C27: during a turn (from the append of the user message until the loop
\* waits for input again) the message list changes only by an append at its
\* end, or by the removal of the user message of that turn on failure; no
\* tool call of the turn, load_messages included, removes or replaces
\* earlier messages.
C27_AppendOnlyInTurn ==
    [][(pc \in {"model", "tools", "running", "model2"}) =>
         (\/ messages' = messages
          \/ (Len(messages') = Len(messages) + 1 /\ SubSeq(messages', 1, Len(messages)) = messages)
          \/ (messages # <<>> /\ messages' = Pop(messages) /\ messages[Len(messages)] = UserMessage(turn)))
      ]_vars

(***************************************************************************)
(* The loop with the return value of the callable on record: a tool that   *)
(* is no conversation tool returns any value of ToolResults.               *)
(***************************************************************************)
ToolReturns ==
    /\ \E tool_result \in ToolResults :
         /\ call' = [op |-> "tool_result", tool_result |-> tool_result]
         /\ ToolReturnsStep(tool_result)
    /\ UNCHANGED <<FOCUS_PATH, focus_set, fs, writes, contents, diffed, clock>>

ResultNext ==
    \/ Startup
    \/ InputEOF \/ InputEmpty \/ CmdQuit \/ CmdSave \/ CmdLoad \/ CmdClear \/ CmdHelp
    \/ UserPrompt
    \/ ApiRaises \/ ApiInvalid \/ ApiNoMessage \/ ApiMessage
    \/ ToolUnknown \/ ToolBadArguments \/ ToolArgumentsNotMapping \/ ToolInvoke
    \/ ToolReturns \/ ToolRaises
    \/ LoadMessagesTool \/ DumpMessagesTool
    \/ SendFollowUp
    \/ FollowUpRaises \/ FollowUpInvalid \/ FollowUpNoMessage \/ FollowUpMessage

SpecResult == Init /\ [][ResultNext]_vars

\* C28: the content of every tool message in the list is a text; when a
\* callable has returned and its tool message is appended, the content is the
\* returned text itself, or, for a value that is no text, the serialized
\* envelope holding the value under "output" and a "warning".
C28_ToolContentIsText ==
    /\ [](\A i \in 1..Len(messages) : messages[i].role = "tool" => isinstance_str(messages[i].content))
    /\ [][(pc = "running" /\ pc' = "tools" /\ tool_calls[idx].name \notin ConversationTools)
           => /\ Len(messages') = Len(messages) + 1
              /\ messages'[Len(messages')].role = "tool"
              /\ \E r \in {call'.tool_result} : \E c \in {messages'[Len(messages')].content} :
                    IF isinstance_str(r) THEN c = r
                    ELSE /\ Len(c) = Len(r) + 2
                         /\ c[1] = "output"
                         /\ SubSeq(c, 2, Len(r)) = Tail(r)
                         /\ c[Len(r) + 1] = "warning"]_vars

\* C28 witness: a callable returned a dict and the request was answered by a
\* tool message whose content is the envelope of that dict.
C28_Witness ==
    /\ call.op = "tool_result"
    /\ call.tool_result = DictResult
    /\ pc = "tools"
    /\ messages[Len(messages)].role = "tool"
    /\ messages[Len(messages)].content = <<"output", "tool_value", "warning", "Tool function did not return a string.">>

(***************************************************************************)
(* parse_gitignore (gitignore_parser.py, lines 8-62).  A line and a        *)
(* pattern are strings, written as sequences of characters; the ignore     *)
(* file is the sequence of its lines, each with its line end.              *)
(***************************************************************************)
MaxIgnoreLines == 2

Venv == <<"v", "e", "n", "v">>
VenvDir == <<"v", "e", "n", "v", "/">>

\* the patterns used when there is no ignore file or reading it fails
DefaultPatterns ==
    <<<<"v", "e", "n", "v", "/">>,
      <<"_", "_", "p", "y", "c", "a", "c", "h", "e", "_", "_", "/">>,
      <<"*", ".", "p", "y", "c">>,
      <<"*", ".", "p", "y", "o">>,
      <<".", "g", "i", "t", "/">>,
      <<"*", ".", "e", "g", "g", "-", "i", "n", "f", "o", "/">>,
      <<"*", ".", "e", "g", "g">>,
      <<"d", "i", "s", "t", "/">>,
      <<"b", "u", "i", "l", "d", "/">>,
      <<".", "e", "n", "v">>>>

Whitespace == {" ", "\t", "\n"}

\* str.strip(): leading and trailing whitespace removed
RECURSIVE lstrip(_)
lstrip(line) == IF line # <<>> /\ line[1] \in Whitespace THEN lstrip(Tail(line)) ELSE line

RECURSIVE rstrip(_)
rstrip(line) == IF line # <<>> /\ line[Len(line)] \in Whitespace THEN rstrip(SubSeq(line, 1, Len(line) - 1)) ELSE line

strip(line) == rstrip(lstrip(line))

\* line.startswith("#")
startswith_hash(line) == line # <<>> /\ line[1] = "#"

\* value in patterns
Contains(patterns, value) == \E i \in 1..Len(patterns) : patterns[i] = value

\* the for loop over the first n lines of the file, lines 38-41
RECURSIVE read_lines(_, _, _)
read_lines(lines, n, patterns) ==
    IF n = 0 \/ lines = <<>> THEN patterns
    ELSE LET line == strip(lines[1]) IN
         read_lines(Tail(lines), n - 1,
                    IF line # <<>> /\ ~startswith_hash(line) THEN Append(patterns, line) ELSE patterns)

\* A slip at lines 58-60: the list is returned as the file gave it.
ensure_venv_Skipped(patterns) == patterns

\* lines 58-60: "Ensure venv is in the patterns"
ensure_venv(patterns) ==
    IF ~Contains(patterns, VenvDir) /\ ~Contains(patterns, Venv) THEN Append(patterns, VenvDir) ELSE patterns

\* exists: os.path.exists(gitignore_path); raises: open or the iteration
\* raises after `read` lines were taken (an unreadable file raises at 0)
parse_gitignore(exists, lines, read, raises) ==
    IF ~exists THEN DefaultPatterns
    ELSE ensure_venv(IF raises THEN read_lines(lines, read, <<>>) \o DefaultPatterns
                     ELSE read_lines(lines, Len(lines), <<>>))

\* the lines an ignore file is made of
IgnoreLines ==
    {<<"\n">>, <<" ", " ", "\n">>, <<"#", "c", "\n">>, <<" ", "#", "\n">>,
     Venv \o <<"\n">>, <<" ">> \o VenvDir \o <<" ", "\n">>, <<"*", ".", "o", "\n">>, <<"a", "#", "b">>}

IgnoreFiles == UNION {[1..n -> IgnoreLines] : n \in 0..MaxIgnoreLines}

ParseGitignore ==
    /\ \E exists \in BOOLEAN, lines \in IgnoreFiles, raises \in BOOLEAN :
         /\ exists \/ (lines = <<>> /\ ~raises)
         /\ \E read \in 0..Len(lines) :
              /\ raises \/ read = Len(lines)
              /\ call' = [op |-> "parse_gitignore", exists |-> exists, lines |-> lines, raises |-> raises,
                          patterns |-> parse_gitignore(exists, lines, read, raises)]
    /\ UNCHANGED <<FOCUS_PATH, focus_set, fs, writes, contents, diffed, clock>>
    /\ UNCHANGED loopVars

SpecIgnore == Init /\ [][ParseGitignore]_vars

\* C29: for every base directory (ignore file absent, present and listing a
\* virtual-environment pattern, present and omitting it, present but
\* unreadable) the list parse_gitignore returns contains "venv/" or "venv";
\* when the file is present, none of its blank lines and none of its lines
\* starting with # is in the list, stripped or not.
C29_VenvAlwaysIgnored ==
    call.op = "parse_gitignore" =>
        /\ Contains(call.patterns, VenvDir) \/ Contains(call.patterns, Venv)
        /\ call.exists =>
              \A i \in 1..Len(call.lines) :
                  (strip(call.lines[i]) = <<>> \/ startswith_hash(call.lines[i]))
                      => /\ ~Contains(call.patterns, call.lines[i])
                         /\ ~Contains(call.patterns, strip(call.lines[i]))

\* C29 witness: a readable ignore file with a comment line and a pattern
\* line, none of them for the virtual environment, was parsed and "venv/"
\* was added behind the pattern of the file.
C29_Witness ==
    /\ call.op = "parse_gitignore"
    /\ call.exists /\ ~call.raises
    /\ call.lines = <<<<"#", "c", "\n">>, <<"*", ".", "o", "\n">>>>
    /\ call.patterns = <<<<"*", ".", "o">>, VenvDir>>

(***************************************************************************)
(* The process from its start: the environment holds OPENROUTER_API_KEY or *)
(* not, main checks it (lines 67-72) before anything else than the logo,   *)
(* and the process ends with an exit code.                                 *)
(***************************************************************************)
Unset == <<"<unset>">>
ApiKeys == {Unset, <<>>, <<"sk-or">>}

Running == -1

\* A slip at line 68: the check is passed whatever the environment holds.
has_api_key_Unchecked(value) == TRUE

\* not os.getenv("OPENROUTER_API_KEY"): None and "" are both false
has_api_key(value) == value # Unset /\ value # <<>>

InitKey ==
    /\ LoopInit
    /\ FOCUS_PATH = <<>> /\ focus_set = FALSE
    /\ fs = InitialFs /\ writes = 0 /\ contents = InitialContents /\ diffed = {} /\ clock = Epoch
    /\ \E value \in ApiKeys : call = [op |-> "main", OPENROUTER_API_KEY |-> value, exit_code |-> Running]

Pinned == UNCHANGED <<FOCUS_PATH, focus_set, fs, writes, contents, diffed, clock>>

\* exit(1), lines 69-72
MissingKeyExit ==
    /\ pc = "start"
    /\ ~has_api_key(call.OPENROUTER_API_KEY)
    /\ pc' = "exited"
    /\ console' = "missing_api_key"
    /\ call' = [call EXCEPT !.exit_code = 1]
    /\ Pinned
    /\ UNCHANGED <<messages, tool_calls, idx, response_message, rendered, disk, turn, round, saves, log, messages_for_api>>

KeyedStartup ==
    /\ has_api_key(call.OPENROUTER_API_KEY)
    /\ StartupStep
    /\ UNCHANGED pathVars

\* the loop is left by break and main returns: exit code 0
KeyedEOF ==
    /\ InputEOFStep
    /\ call' = [call EXCEPT !.exit_code = 0]
    /\ Pinned

KeyedQuit ==
    /\ CmdQuitStep
    /\ call' = [call EXCEPT !.exit_code = 0]
    /\ Pinned

KeyNext ==
    \/ MissingKeyExit \/ KeyedStartup
    \/ KeyedEOF \/ KeyedQuit
    \/ InputEmpty \/ CmdSave \/ CmdLoad \/ CmdClear \/ CmdHelp
    \/ UserPrompt
    \/ ApiRaises \/ ApiInvalid \/ ApiNoMessage \/ ApiMessage
    \/ ToolUnknown \/ ToolBadArguments \/ ToolArgumentsNotMapping \/ ToolInvoke
    \/ ToolReturnsText \/ ToolReturnsOther \/ ToolRaises
    \/ LoadMessagesTool \/ DumpMessagesTool
    \/ SendFollowUp
    \/ FollowUpRaises \/ FollowUpInvalid \/ FollowUpNoMessage \/ FollowUpMessage

SpecKey == InitKey /\ [][KeyNext]_vars

\* C30: when OPENROUTER_API_KEY is missing from the environment, the only
\* step of the process is the exit with code 1: the loop is never entered,
\* no line is read, no request is sent to the model and no tool is run.
C30_MissingKeyExitsFirst ==
    /\ [](call.OPENROUTER_API_KEY = Unset =>
            /\ pc \in {"start", "exited"}
            /\ call.exit_code \in {Running, 1}
            /\ pc = "exited" <=> call.exit_code = 1
            /\ messages = <<SystemMessage>>
            /\ turn = 0 /\ round = 0 /\ saves = 0
            /\ log = <<>> /\ messages_for_api = <<>>
            /\ disk = [f \in FileNames |-> IF f = Legacy THEN BareList(OldTurn) ELSE Absent])
    /\ [][(call.OPENROUTER_API_KEY = Unset /\ pc = "start") => (pc' = "exited" /\ call'.exit_code = 1)]_vars

\* C30 witness: the process was started without the variable and has ended
\* with code 1 and the message about the missing key.
C30_Witness ==
    /\ call.op = "main"
    /\ call.OPENROUTER_API_KEY = Unset
    /\ pc = "exited"
    /\ call.exit_code = 1
    /\ console = "missing_api_key"

\* C31: resolve_path takes the focus path as base directory exactly when
\* use_focus_path is true and a focus path is set, and the working directory
\* otherwise; a relative path is joined to the base and normalized, an
\* absolute path is returned as given, neither re-based nor normalized.
C31_BaseAndAbsolute ==
    call.op = "resolve_path" =>
        /\ call.base_dir = (IF call.use_focus_path /\ FOCUS_PATH # <<>> THEN FOCUS_PATH ELSE Cwd)
        /\ IF IsAbs(call.file_path)
           THEN call.resolved_path = call.file_path
           ELSE /\ call.resolved_path = NormPath(Join(call.base_dir, call.file_path))
                /\ IsAbs(call.resolved_path)
                /\ \A i \in 1..Len(Split(call.resolved_path)) :
                      Split(call.resolved_path)[i] \notin {<<".">>, DotDot}

\* C31 witness: with a focus path set, resolve_path was called with
\* use_focus_path false and a relative path that climbs, and returned a
\* normalized path under the working directory.
C31_Witness ==
    /\ call.op = "resolve_path"
    /\ FOCUS_PATH # <<>> /\ FOCUS_PATH # Cwd
    /\ ~call.use_focus_path
    /\ ~IsAbs(call.file_path)
    /\ call.base_dir = Cwd
    /\ call.resolved_path # Join(Cwd, call.file_path)
    /\ StartsWith(call.resolved_path, Cwd)

\* the position of the last message before position j that is no tool
\* message (0 when there is none)
RECURSIVE Opener(_, _)
Opener(msgs, j) ==
    IF j <= 1 THEN 0
    ELSE IF msgs[j - 1].role # "tool" THEN j - 1 ELSE Opener(msgs, j - 1)

\* the tool messages that answer the message at position k: those that follow
\* it before the next message that is no tool message
Answering(msgs, k) == {j \in (k + 1)..Len(msgs) : msgs[j].role = "tool" /\ Opener(msgs, j) = k}

\* C32: whenever a chat request has just been sent (first request of a turn
\* or follow-up request, in any turn), every request carried by an assistant
\* message of the list is answered by exactly one tool message with its id
\* after that assistant message, and every tool message answers an assistant
\* message before it that carries a request with its id.
C32_HistoryConsistentWhenSent ==
    pc \in {"model", "model2"} =>
        /\ \A k \in 1..Len(messages) : \A c \in 1..Len(messages[k].calls) :
              Cardinality({j \in Answering(messages, k) : messages[j].id = messages[k].calls[c].id}) = 1
        /\ \A j \in 1..Len(messages) :
              messages[j].role = "tool" =>
                  /\ Opener(messages, j) > 0
                  /\ messages[Opener(messages, j)].role = "assistant"
                  /\ \E c \in 1..Len(messages[Opener(messages, j)].calls) :
                        messages[Opener(messages, j)].calls[c].id = messages[j].id

(***************************************************************************)
(* The loop with the message list of the moment a turn begins on record:   *)
(* the list as it is when the prompt of the turn is read (main, line 152), *)
(* before the user message is appended (lines 170-175).                    *)
(***************************************************************************)
TurnPrompt ==
    /\ call' = [op |-> "turn", before |-> messages]
    /\ UserPromptStep
    /\ UNCHANGED <<FOCUS_PATH, focus_set, fs, writes, contents, diffed, clock>>

TurnNext ==
    \/ Startup
    \/ InputEOF \/ InputEmpty \/ CmdQuit \/ CmdSave \/ CmdLoad \/ CmdClear \/ CmdHelp
    \/ TurnPrompt
    \/ ApiRaises \/ ApiInvalid \/ ApiNoMessage \/ ApiMessage
    \/ ToolUnknown \/ ToolBadArguments \/ ToolArgumentsNotMapping \/ ToolInvoke
    \/ ToolReturnsText \/ ToolReturnsOther \/ ToolRaises
    \/ LoadMessagesTool \/ DumpMessagesTool
    \/ SendFollowUp
    \/ FollowUpRaises \/ FollowUpInvalid \/ FollowUpNoMessage \/ FollowUpMessage

SpecTurn == Init /\ [][TurnNext]_vars

\* what the console shows after a turn that ended in a failure
TurnFailures ==
    {"unexpected_error_request", "unexpected_error_tool", "unexpected_error_arguments",
     "invalid_response", "no_message"}

\* C33: a turn that ends in a failure (failed request, invalid response,
\* tool exception), at the first or at a later round, leaves the message list
\* equal to the list before the turn began.
C33_FailedTurnRestoresList ==
    [][(pc \in {"model", "tools", "running", "model2"} /\ pc' = "input" /\ console' \in TurnFailures)
          => messages' = call.before]_vars

(***************************************************************************)
(* Chained tool use: the remote model may ask for tools again after each   *)
(* round, up to MaxChain rounds; it asks for one tool at a time.  The loop *)
(* is a sequential program: a step that can be taken is taken.             *)
(***************************************************************************)
MaxChain == 3

ChainKinds ==
    {[name |-> "read_file_content", args |-> a, file |-> Out] : a \in {"obj", "bad", "nonmap"}}
    \cup {[name |-> "delete_everything", args |-> "obj", file |-> Out]}

ChainAnswers(r) ==
    {AssistantMessage(c, <<>>) : c \in {<<>>, <<"text">>}}
    \cup (IF r < MaxChain
          THEN {AssistantMessage(<<>>, MkCalls(<<k>>, r + 1)) : k \in ChainKinds}
          ELSE {})

ChainApiMessage ==
    /\ UNCHANGED pathVars
    /\ pc = "model"
    /\ \E m \in ChainAnswers(round) : TakeMessage(m)
    /\ UNCHANGED <<disk, turn, saves>>

ChainFollowUpMessage ==
    /\ UNCHANGED pathVars
    /\ pc = "model2"
    /\ \E m \in ChainAnswers(round) : TakeMessage(m)
    /\ UNCHANGED <<disk, turn, saves>>

\* the steps of a turn: a request, a tool call or the loop's own code returns
\* or raises (a request that hangs ends in the timeout error of the client)
ChainSteps ==
    \/ ChainApiMessage \/ ChainFollowUpMessage
    \/ ToolUnknown \/ ToolBadArguments \/ ToolInvoke
    \/ ToolReturnsText \/ ToolReturnsOther
    \/ SendFollowUp
    \/ ApiRaises \/ ApiInvalid \/ ApiNoMessage
    \/ ToolArgumentsNotMapping \/ ToolRaises
    \/ FollowUpRaises \/ FollowUpInvalid \/ FollowUpNoMessage

ChainNext ==
    \/ Startup \/ InputEOF \/ UserPrompt
    \/ ChainApiMessage \/ ChainFollowUpMessage
    \/ ToolUnknown \/ ToolBadArguments \/ ToolInvoke
    \/ ToolReturnsText \/ ToolReturnsOther
    \/ SendFollowUp
    \/ ApiRaises \/ ApiInvalid \/ ApiNoMessage
    \/ ToolArgumentsNotMapping \/ ToolRaises
    \/ FollowUpRaises \/ FollowUpInvalid \/ FollowUpNoMessage

SpecChain == Init /\ [][ChainNext]_vars /\ WF_vars(ChainSteps)

\* C34: an assistant message that carries tool-call requests starts a round
\* at any round number, and a finished round is followed by the follow-up
\* request; an assistant message without requests is displayed and the loop
\* waits for input; and when no call of the session fails, a turn that has
\* begun leads to a displayed answer with the loop waiting for input.
C34_ChainedUntilAnswer ==
    /\ [][(pc \in {"model", "model2"} /\ Len(messages') = Len(messages) + 1)
            => LET m == messages'[Len(messages')] IN
               /\ m.role = "assistant"
               /\ m.calls # <<>> => (pc' = "tools" /\ tool_calls' = m.calls /\ round' = round + 1)
               /\ m.calls = <<>> => (pc' = "input" /\ console' = "answer" /\ rendered' # Nothing)]_vars
    /\ [][(pc = "tools" /\ idx > Len(tool_calls)) => (pc' = "model2" /\ messages' = messages)]_vars
    /\ ([](console \notin TurnFailures) => ((pc = "model") ~> (pc = "input" /\ console = "answer" /\ rendered # Nothing)))

\* C34 witness: in the first turn the third round in a row has finished and
\* its follow-up request is out.
C34_Witness ==
    /\ turn = 1
    /\ round = MaxChain
    /\ pc = "model2"
    /\ Cardinality({i \in 1..Len(messages) : messages[i].role = "assistant" /\ messages[i].calls # <<>>}) = MaxChain

\* the forms of a control command: exit, quit, save [name], load <name>
\* (or load alone, which is answered by a usage error), clear, help
IsCommandForm(line) ==
    LET parts == cmd_parts(line) IN
    \/ Len(parts) = 1 /\ parts[1] \in {"exit", "quit", "save", "load", "clear", "help"}
    \/ Len(parts) = 2 /\ parts[1] \in {"save", "load"}

\* C35: a line that is not empty and has none of the command forms, a
\* sentence beginning with a command keyword included, is appended as the
\* user message of a new turn and sent to the model; the saved files and the
\* earlier messages are left as they are.
C35_OnlyCommandFormsAreCommands ==
    [][(pc = "input" /\ call'.op = "prompt" /\ call'.user_prompt # EndOfInput
          /\ ~IsEmptyLine(call'.user_prompt) /\ ~IsCommandForm(call'.user_prompt))
         => /\ messages' = Append(messages, UserMessage(turn + 1))
            /\ pc' = "model"
            /\ messages_for_api' # <<>>
            /\ disk' = disk]_vars

(***************************************************************************)
(* is_ignored (gitignore_parser.py, lines 64-105).  A path and a pattern   *)
(* are strings; is_dir is what os.path.isdir answers for the path.         *)
(***************************************************************************)
MaxPatterns == 2

\* os.path.basename: what follows the last separator
RECURSIVE basename(_)
basename(path) ==
    IF path = <<>> \/ path[Len(path)] = "/" THEN <<>>
    ELSE Append(basename(SubSeq(path, 1, Len(path) - 1)), path[Len(path)])

\* fnmatch.fnmatch on POSIX, for patterns of literal characters, ? and *
\* (* stands for any characters, separators included)
RECURSIVE fnmatch(_, _)
fnmatch(name, pat) ==
    IF pat = <<>> THEN name = <<>>
    ELSE IF pat[1] = "*" THEN fnmatch(name, Tail(pat)) \/ (name # <<>> /\ fnmatch(Tail(name), pat))
    ELSE /\ name # <<>>
         /\ pat[1] = "?" \/ pat[1] = name[1]
         /\ fnmatch(Tail(name), Tail(pat))

\* the strings os.path.sep.join(path_parts[i:]): the path itself and what
\* follows each of its separators
subpaths(path) == {path} \cup {SubSeq(path, i + 1, Len(path)) : i \in {j \in 1..Len(path) : path[j] = "/"}}

\* pattern.endswith("/")
is_dir_pattern(pattern) == pattern # <<>> /\ pattern[Len(pattern)] = "/"

\* pattern[:-1] for a directory pattern
sans_slash(pattern) == IF is_dir_pattern(pattern) THEN SubSeq(pattern, 1, Len(pattern) - 1) ELSE pattern

\* one round of the for loop, lines 77-103: TRUE when it returns True
pattern_hits(path, is_dir, pattern) ==
    \/ sans_slash(pattern) = basename(path)
    \/ /\ ~(is_dir_pattern(pattern) /\ ~is_dir)
       /\ \/ fnmatch(basename(path), sans_slash(pattern))
          \/ \E subpath \in subpaths(path) : fnmatch(subpath, sans_slash(pattern))

is_ignored(path, is_dir, patterns) == \E i \in 1..Len(patterns) : pattern_hits(path, is_dir, patterns[i])

\* candidates and patterns
IgnorePaths == {<<"v">>, <<"v", "e">>, <<"a", "/", "v">>, <<"v", "/", "a">>, <<"a">>, <<"/", "w", "/", "v">>}

IgnorePatterns == {<<"v", "/">>, <<"v", "*", "/">>, <<"v">>, <<"*", "e", "/">>, <<"a", "/", "v", "/">>, <<"?", "/">>}

PatternLists == UNION {[1..n -> IgnorePatterns] : n \in 0..MaxPatterns}

IsIgnored ==
    /\ \E path \in IgnorePaths, is_dir \in BOOLEAN, patterns \in PatternLists :
         call' = [op |-> "is_ignored", path |-> path, is_dir |-> is_dir, patterns |-> patterns,
                  ignored |-> is_ignored(path, is_dir, patterns)]
    /\ UNCHANGED <<FOCUS_PATH, focus_set, fs, writes, contents, diffed, clock>>
    /\ UNCHANGED loopVars

SpecIsIgnored == Init /\ [][IsIgnored]_vars

\* C36: with directory-scoped patterns only (trailing /), is_ignored
\* returns true only for a directory whose base name equals or glob-matches
\* one of the patterns without its slash; a regular file is not ignored,
\* whatever its base name.
C36_DirectoryPatternsHitDirectories ==
    (call.op = "is_ignored" /\ \A i \in 1..Len(call.patterns) : is_dir_pattern(call.patterns[i]))
        => (call.ignored =>
              /\ call.is_dir
              /\ \E i \in 1..Len(call.patterns) :
                    LET pattern == SubSeq(call.patterns[i], 1, Len(call.patterns[i]) - 1) IN
                    pattern = basename(call.path) \/ fnmatch(basename(call.path), pattern))

(***************************************************************************)
(* get_tool_definitions (tools.py, lines 132-160): the list sent to the    *)
(* model is built from the registry of the discovery scan, one visit for   *)
(* each registered name.                                                   *)
(***************************************************************************)
\* the module at a path of the tools directory
RECURSIVE ModuleAt(_, _)
ModuleAt(directory, path) ==
    IF Len(path) = 1 THEN directory[path[1]]
    ELSE ModuleAt(directory[path[1]].items, Tail(path))

\* what module.get_tool_definition() returns, as the names of the
\* definitions: one definition, or a list of definitions
RECURSIVE NamesInOrder(_)
NamesInOrder(names) ==
    IF names = {} THEN <<>>
    ELSE LET n == CHOOSE x \in names : TRUE IN <<n>> \o NamesInOrder(names \ {n})

get_tool_definition(module) ==
    IF module.kind = "tools" THEN NamesInOrder(ToolNames) ELSE <<module.name>>

\* the for loop over tool_modules.items(), lines 142-158: the definitions of
\* the module registered under each name are added to the list
RECURSIVE collect_definitions(_, _, _)
collect_definitions(tools_dir, tool_modules, names) ==
    IF names = <<>> THEN <<>>
    ELSE get_tool_definition(ModuleAt(tools_dir, tool_modules[Head(names)]))
             \o collect_definitions(tools_dir, tool_modules, Tail(names))

get_tool_definitions(exists, tools_dir) ==
    LET found == find_all_tool_modules(exists, tools_dir) IN
    IF found.raised THEN [raised |-> TRUE, tool_definitions |-> <<>>]
    ELSE [raised |-> FALSE,
          tool_definitions |-> collect_definitions(tools_dir, found.modules_found,
                                                   NamesInOrder(DOMAIN found.modules_found))]

GetToolDefinitions ==
    /\ \E tools_dir \in ToolDirs, exists \in BOOLEAN :
         /\ exists \/ tools_dir = <<>>
         /\ \E r \in {get_tool_definitions(exists, tools_dir)} :
              call' = [op |-> "get_tool_definitions", tools_dir |-> tools_dir, exists |-> exists,
                       raised |-> r.raised, tool_definitions |-> r.tool_definitions]
    /\ UNCHANGED <<FOCUS_PATH, focus_set, fs, writes, contents, diffed, clock>>
    /\ UNCHANGED loopVars

SpecDefinitions == Init /\ [][GetToolDefinitions]_vars

\* C37: the list of tool definitions is built without raising and holds
\* each tool definition of the discovered modules exactly once, also those
\* of a module that defines several tools; helper modules and modules that
\* fail to load add nothing.
C37_EachDefinitionOnce ==
    call.op = "get_tool_definitions" =>
        /\ ~call.raised
        /\ \A n \in DefinedTools(call.tools_dir, 1) :
              Cardinality({i \in 1..Len(call.tool_definitions) : call.tool_definitions[i] = n}) = 1
        /\ \A i \in 1..Len(call.tool_definitions) : call.tool_definitions[i] \in DefinedTools(call.tools_dir, 1)

(***************************************************************************)
(* A session that starts next to a conversation file that holds no         *)
(* messages: content that is no JSON, or a JSON object without "messages". *)
(***************************************************************************)
InitLoad ==
    /\ PathInit
    /\ messages = <<SystemMessage>>
    /\ pc = "start"
    /\ tool_calls = <<>>
    /\ idx = 1
    /\ response_message = NoMessage
    /\ console = "logo"
    /\ rendered = Nothing
    /\ \E broken \in {Garbage, JsonObject} :
         disk = [f \in FileNames |-> IF f = Legacy THEN broken ELSE Absent]
    /\ turn = 0
    /\ round = 0
    /\ saves = 0
    /\ log = <<>>
    /\ messages_for_api = <<>>

SpecLoad == InitLoad /\ [][PromptNext]_vars

\* the payload a load of `filename` finds on a disk
Stored(d, filename) ==
    IF Lookup(d, WithJson(filename)) # Absent THEN Lookup(d, WithJson(filename))
    ELSE Lookup(d, AltPath(WithJson(filename)))

\* the file exists and holds a list of messages, bare or in an envelope
HoldsMessages(d, filename) == Stored(d, filename).shape \in {"list", "envelope"}

\* C38: a load that fails (no filename, file not found, content that is no
\* JSON or has no messages) leaves the message list as it was, whether it is
\* the load command, the --load option or the load_messages tool (whose tool
\* message the loop then appends); the list is replaced, by the whole list of
\* the file, only when the file holds messages.
C38_FailedLoadKeepsList ==
    /\ [][(pc = "input" /\ call'.op = "prompt" /\ call'.user_prompt # EndOfInput
            /\ ~IsEmptyLine(call'.user_prompt) /\ base_cmd(call'.user_prompt) = "load")
           => LET parts == cmd_parts(call'.user_prompt) IN
              IF Len(parts) >= 2 /\ HoldsMessages(disk, <<parts[2]>>)
              THEN messages' = Stored(disk, <<parts[2]>>).msgs
              ELSE messages' = messages]_vars
    /\ [][(pc = "running" /\ tool_calls[idx].name = "load_messages" /\ pc' = "tools")
           => /\ Len(messages') >= 1
              /\ SubSeq(messages', 1, Len(messages') - 1) =
                    (IF HoldsMessages(disk, tool_calls[idx].file)
                     THEN Stored(disk, tool_calls[idx].file).msgs ELSE messages)]_vars
    /\ [][(pc = "start")
           => \/ messages' = messages
              \/ \E f \in FileNames : HoldsMessages(disk, f) /\ messages' = Stored(disk, f).msgs]_vars

\* C39: when the first message of the list has the role system, the clear
\* command leaves exactly that message, unchanged, and the loop waits for
\* the next line; a clear of a list that holds only the system message
\* leaves the list as it is.
C39_ClearKeepsSystemMessage ==
    [][(pc = "input" /\ call'.op = "prompt" /\ call'.user_prompt # EndOfInput
          /\ ~IsEmptyLine(call'.user_prompt) /\ base_cmd(call'.user_prompt) = "clear"
          /\ Len(messages) > 0 /\ messages[1].role = "system")
         => /\ messages' = <<messages[1]>>
            /\ Len(messages) = 1 => messages' = messages
            /\ pc' = "input"
            /\ disk' = disk]_vars

\* C39 witness: after a turn that was answered, clear was typed and the list
\* holds the system message alone.
C39_Witness ==
    /\ call.op = "prompt"
    /\ call.user_prompt = <<"clear">>
    /\ turn = 1
    /\ pc = "input"
    /\ console = "command"
    /\ rendered.role = "assistant"
    /\ messages = <<SystemMessage>>

(***************************************************************************)
(* The diff of a file that does not exist.                                 *)
(***************************************************************************)
\* the lines of the diff a call returned
DiffLines(c) == SplitLines(c.diff)

\* a line of the proposed content as the diff shows an added line
Addition(line) == <<"GREEN", "+">> \o line \o <<"RESET">>

\* C40: when the target file does not exist, get_diff_for_proposed_changes
\* reads the original content as empty: for proposed content with at least
\* one line the status is "success", every line of the proposed content is in
\* the diff as an addition-marked line and no line behind the file header is
\* a removal; for empty proposed content the result is the no-change result.
C40_MissingFileIsAllAdditions ==
    (/\ call.op = "get_diff_for_proposed_changes"
     /\ call.is_in_base_dir
     /\ ~Exists(call.resolved_path, fs))
        => LET proposed_lines == SplitLines(call.proposed)
               lines == DiffLines(call)
           IN  /\ call.original_content = <<>>
               /\ proposed_lines # <<>>
                    => /\ call.status = "success"
                       /\ \A i \in 1..Len(proposed_lines) :
                            \E j \in 1..Len(lines) : lines[j] = Addition(proposed_lines[i])
                       /\ \A j \in 2..Len(lines) : ~StartsWith(lines[j], <<"RED">>)
               /\ proposed_lines = <<>>
                    => /\ call.status = "no_change"
                       /\ call.diff = <<>>

\* C40 witness: the two-line text "a", "b" was proposed for the file g, which
\* does not exist, and the diff came back with both lines added.
C40_Witness ==
    /\ call.op = "get_diff_for_proposed_changes"
    /\ call.file_path = <<"g">>
    /\ ~Exists(call.resolved_path, fs)
    /\ call.proposed = <<"a", "\n", "b">>
    /\ call.status = "success"
    /\ Len(DiffLines(call)) = 5

====
